---- MODULE Spec2Model ----
(***************************************************************************)
(* A model of the demo recorder (akram/getademo).                          *)
(*                                                                         *)
(* Part 1: the recording session.  Two implementations exist in the       *)
(* repository and both are modelled, selected by the variable impl:       *)
(*   "server"  - the module-level globals of src/recorder/server.py       *)
(*               (_start_recording, _stop_recording, _recording_status)   *)
(*   "backend" - RecordingBackend in src/recorder/backends/base.py        *)
(* Tool calls are coroutines on one asyncio loop: the code between two    *)
(* awaits runs atomically, and every await (asyncio.sleep) is a point     *)
(* where another call, or the capture subprocess, may take a step.        *)
(***************************************************************************)
EXTENDS Integers, Sequences, FiniteSets, TLC

\* ---------------------------------------------------------------- bounds
MaxProcs == 2      \* capture subprocesses that may be launched in one run
MaxCallers == 2    \* tool calls that may be in flight at the same time
MaxSize == 2       \* largest output file size (in blocks) that is tracked

\* --------------------------------------------------- program constants
StdinPolls == 30   \* polls after 'q' on stdin
SigintPolls == 20  \* polls after SIGINT
SigtermPolls == 20 \* polls after SIGTERM

Procs == 1..MaxProcs
Callers == 1..MaxCallers
None == 0

\* Result texts of the handlers (the leading words of the returned text).
AlreadyRecording == "Recording already in progress. Stop it first."
NotRecording == "No recording in progress."
AlreadyStopped == "Recording already stopped."
NoWindow == "ERROR: Could not auto-detect browser window."
CaptureError == "Window capture error"
FailedToStart == "Recording failed to start"
Started == "Recording started"
Stopped == "Recording stopped"
InProgress == "Recording in progress"
Raised == "Error: "

VARIABLES
    impl,       \* which implementation runs: "server" or "backend"
    proc,       \* proc[p]: "unborn", "alive", "dead" or "nolaunch" (Popen raised)
    logOpen,    \* logOpen[p]: the log handle opened for launch p is open
    logOnDisk,  \* logOnDisk[p]: the log file of launch p exists on disk
    fileSize,   \* fileSize[p]: size of the output file of launch p, -1 = missing
    nextId,     \* the next launch (subprocess and log handle) identifier
    rec,        \* the recording state: process, path, start_time, log_file, last_size
    pc,         \* pc[c]: where call c is suspended ("idle" = no call in flight)
    op,         \* op[c]: the tool call c runs or has just returned from, else "none"
    loc,        \* loc[c]: the call's local variables
    sent,       \* sent[c]: the stop signals call c has sent, in order
    result      \* result[c]: the text call c has just returned, else ""
\* op, sent and result of a call that has returned are what the caller sees at
\* the return; the next step of anything clears them.

recVars == <<impl, proc, logOpen, logOnDisk, fileSize, nextId, rec, pc, op, loc, sent, result>>

VARIABLES
    sy,         \* one call of adjust_video_to_audio: its inputs, then its outcome
    cap,        \* one resolution of a capture target: its inputs, then its outcome
    wm,         \* one query of the window manager: its inputs, then its outcome
    cc,         \* one call of concatenate_videos: its inputs, then its outcome
    tl,         \* the tool layer: the call being dispatched and the calls served
    mx          \* the multiplexer and one child: ids, pending table, tasks, pipes

SyOff == [st |-> "off"]
CapOff == [st |-> "off"]
WmOff == [st |-> "off"]
CcOff == [st |-> "off"]
TlOff == [st |-> "off"]
MxOff == [st |-> "off"]

pureVars == <<sy, cap, wm, cc, tl, mx>>

\* The recording state after construction and after a reset.
\* server.py:80-84; RecordingState() in base.py:21.
IdleState == [process |-> None, path |-> None, start_time |-> None,
              log_file |-> None, last_size |-> 0]

NoLocals == [process |-> None, path |-> None, log |-> None, i |-> 0]

RecInit ==
    /\ impl \in {"server", "backend"}
    /\ proc = [p \in Procs |-> "unborn"]
    /\ logOpen = [p \in Procs |-> FALSE]
    /\ logOnDisk = [p \in Procs |-> FALSE]
    /\ fileSize = [p \in Procs |-> -1]
    /\ nextId = 1
    /\ rec = IdleState
    /\ pc = [c \in Callers |-> "idle"]
    /\ op = [c \in Callers |-> "none"]
    /\ loc = [c \in Callers |-> NoLocals]
    /\ sent = [c \in Callers |-> <<>>]
    /\ result = [c \in Callers |-> ""]

\* Popen.poll() is None: the subprocess has not exited.
Alive(p) == p # None /\ proc[p] = "alive"

\* The guard with the poll() test inverted ("is not None").
ServerBusy_PollInverted == rec.process # None /\ ~Alive(rec.process)

\* _recording_process is not None and _recording_process.poll() is None
\* (the guard of _start_recording and, negated, of _recording_status).
ServerBusy == rec.process # None /\ Alive(rec.process)

\* RecordingState.is_recording(): a subprocess is stored and has not exited.
is_recording == rec.process # None /\ Alive(rec.process)

\* A reset that leaves the stored subprocess in place.
reset_KeepsProcess == [IdleState EXCEPT !.process = rec.process]

\* RecordingState.reset(): every field back to its initial value.
reset == IdleState

\* The guard at the top of the start handler of the running implementation.
StartRejects == IF impl = "server" THEN ServerBusy ELSE is_recording

\* ------------------------------------------------------------- helpers
BaseOp == [d \in Callers |-> IF pc[d] = "idle" THEN "none" ELSE op[d]]
BaseSent == [d \in Callers |-> IF pc[d] = "idle" THEN <<>> ELSE sent[d]]
BaseResult == [d \in Callers |-> ""]

\* The call returns `text` to its caller.
Ret(c, text) ==
    /\ pc' = [pc EXCEPT ![c] = "idle"]
    /\ result' = [BaseResult EXCEPT ![c] = text]
    /\ loc' = [loc EXCEPT ![c] = NoLocals]
    /\ op' = BaseOp

\* The call is suspended at the await `where`.
Goto(c, where) ==
    /\ pc' = [pc EXCEPT ![c] = where]
    /\ result' = BaseResult
    /\ op' = BaseOp

Quiet == op' = BaseOp /\ sent' = BaseSent /\ result' = BaseResult
NoSend == sent' = BaseSent
Send(c, sig) == sent' = [BaseSent EXCEPT ![c] = Append(sent[c], sig)]

\* Launch identifiers still free for the starts that are in flight.
InFlightStarts == {d \in Callers : op[d] = "start" /\ pc[d] \in {"entry", "s_focus"}}
IdsLeft == nextId + Cardinality(InFlightStarts) <= MaxProcs

\* A tool call arrives: call_tool dispatches on the tool name.
Call(c, tool) ==
    /\ UNCHANGED pureVars
    /\ pc[c] = "idle"
    /\ tool = "start" => IdsLeft
    /\ pc' = [pc EXCEPT ![c] = "entry"]
    /\ op' = [BaseOp EXCEPT ![c] = tool]
    /\ result' = BaseResult
    /\ sent' = [BaseSent EXCEPT ![c] = <<>>]
    /\ UNCHANGED <<impl, proc, logOpen, logOnDisk, fileSize, nextId, rec, loc>>

\* -------------------------------------------------------------- start
\* The state stored by a start whose subprocess k was launched.
\* server.py:650-658, base.py:204-209.
StoredState(k) == [process |-> k, path |-> k, start_time |-> k,
                   log_file |-> k, last_size |-> 0]

\* The second block of start: resolve the capture target (server), open the
\* log file, launch the subprocess and store the state; then the handler
\* awaits the grace period.  captureErr, ffmpegFound, popenOk are what the
\* platform answers.
Launch(c, captureErr, ffmpegFound, popenOk) ==
    LET k == nextId IN
    IF impl = "server" /\ captureErr
    THEN /\ Ret(c, CaptureError)
         /\ UNCHANGED <<proc, logOpen, logOnDisk, fileSize, nextId, rec>>
    ELSE IF impl = "backend" /\ ~ffmpegFound
    THEN /\ Ret(c, Raised)
         /\ UNCHANGED <<proc, logOpen, logOnDisk, fileSize, nextId, rec>>
    ELSE /\ nextId' = k + 1
         /\ logOpen' = [logOpen EXCEPT ![k] = TRUE]
         /\ logOnDisk' = [logOnDisk EXCEPT ![k] = TRUE]
         /\ UNCHANGED fileSize
         /\ IF popenOk
            THEN /\ proc' = [proc EXCEPT ![k] = "alive"]
                 /\ rec' = StoredState(k)
                 /\ loc' = [loc EXCEPT ![c] = [process |-> k, path |-> k, log |-> k, i |-> 0]]
                 /\ Goto(c, "s_grace")
            ELSE /\ proc' = [proc EXCEPT ![k] = "nolaunch"]
                 /\ rec' = IF impl = "server" THEN [rec EXCEPT !.log_file = k] ELSE rec
                 /\ Ret(c, Raised)

\* The first block of start, up to the focus delay.
StartEntry(c) ==
    /\ UNCHANGED pureVars
    /\ pc[c] = "entry" /\ op[c] = "start"
    /\ UNCHANGED impl /\ NoSend
    /\ IF StartRejects
       THEN /\ Ret(c, AlreadyRecording)
            /\ UNCHANGED <<proc, logOpen, logOnDisk, fileSize, nextId, rec>>
       ELSE \E titleFound, ffmpegFound, captureErr, focusRaises, popenOk \in BOOLEAN :
            IF impl = "server" /\ ~titleFound
            THEN /\ Ret(c, NoWindow)
                 /\ UNCHANGED <<proc, logOpen, logOnDisk, fileSize, nextId, rec>>
            ELSE IF impl = "server" /\ ~ffmpegFound
            THEN /\ Ret(c, Raised)
                 /\ UNCHANGED <<proc, logOpen, logOnDisk, fileSize, nextId, rec>>
            ELSE IF impl = "backend" /\ captureErr
            THEN /\ Ret(c, CaptureError)
                 /\ UNCHANGED <<proc, logOpen, logOnDisk, fileSize, nextId, rec>>
            ELSE IF focusRaises
            THEN Launch(c, captureErr, ffmpegFound, popenOk)
            ELSE /\ Goto(c, "s_focus")
                 /\ UNCHANGED <<proc, logOpen, logOnDisk, fileSize, nextId, rec, loc>>

\* The focus delay (asyncio.sleep(0.3)) is over.
StartAfterFocus(c) ==
    /\ UNCHANGED pureVars
    /\ pc[c] = "s_focus"
    /\ UNCHANGED impl /\ NoSend
    /\ \E captureErr, ffmpegFound, popenOk \in BOOLEAN :
           Launch(c, captureErr, ffmpegFound, popenOk)

\* The grace period (asyncio.sleep(0.5)) is over: is the subprocess alive?
\* The server reads the globals again; the backend uses its locals.
StartGrace(c) ==
    /\ UNCHANGED pureVars
    /\ pc[c] = "s_grace"
    /\ UNCHANGED <<impl, proc, logOnDisk, fileSize, nextId>> /\ NoSend
    /\ IF impl = "server"
       THEN IF rec.process = None
            THEN Ret(c, Raised) /\ UNCHANGED <<rec, logOpen>>
            ELSE IF Alive(rec.process)
            THEN Ret(c, Started) /\ UNCHANGED <<rec, logOpen>>
            ELSE /\ logOpen' = [logOpen EXCEPT ![rec.log_file] = FALSE]
                 /\ rec' = [rec EXCEPT !.process = None, !.path = None,
                                       !.start_time = None, !.log_file = None]
                 /\ Ret(c, FailedToStart)
       ELSE IF Alive(loc[c].process)
            THEN Ret(c, Started) /\ UNCHANGED <<rec, logOpen>>
            ELSE /\ logOpen' = [logOpen EXCEPT ![loc[c].log] = FALSE]
                 /\ rec' = reset
                 /\ Ret(c, FailedToStart)

\* --------------------------------------------------------------- stop
\* The subprocess a stop call works on: the server reads the global
\* _recording_process at every use, the backend its local `process`.
StopProc(c) == IF impl = "server" THEN rec.process ELSE loc[c].process

\* The stop guard without its poll() test: only "is None" is checked.
StopRefusal_NoPoll == IF rec.process = None THEN NotRecording ELSE ""

\* The guard at the top of the stop handler: "" when the call goes on,
\* else the text it returns at once.  server.py:716-720, base.py:247-251.
StopRefusal ==
    IF impl = "server"
    THEN IF rec.process = None THEN NotRecording
         ELSE IF ~Alive(rec.process) THEN AlreadyStopped ELSE ""
    ELSE IF ~is_recording THEN NotRecording ELSE ""

\* The state the session is left in when stop has run its escalation.
\* server.py:785-789, base.py:341.
AfterStop == IF impl = "server" THEN IdleState ELSE reset

\* A clean-up that deletes the log whatever the size of the output.
Finish_DeletesAlways(c) ==
    LET lg == rec.log_file
    IN /\ logOpen' = IF lg # None THEN [logOpen EXCEPT ![lg] = FALSE] ELSE logOpen
       /\ logOnDisk' = IF lg # None /\ logOnDisk[lg]
                       THEN [logOnDisk EXCEPT ![lg] = FALSE] ELSE logOnDisk
       /\ rec' = AfterStop
       /\ Ret(c, Stopped)
       /\ UNCHANGED <<proc, fileSize, nextId>>

\* Close the log, size the output, delete the log of a non-empty output,
\* reset the state and return.  server.py:775-815, base.py:318-352.
Finish(c) ==
    LET lg == rec.log_file
        out == loc[c].path
        nonEmpty == out # None /\ fileSize[out] > 0
    IN /\ logOpen' = IF lg # None THEN [logOpen EXCEPT ![lg] = FALSE] ELSE logOpen
       /\ logOnDisk' = IF lg # None /\ logOnDisk[lg] /\ nonEmpty
                       THEN [logOnDisk EXCEPT ![lg] = FALSE] ELSE logOnDisk
       /\ rec' = AfterStop
       /\ Ret(c, Stopped)
       /\ UNCHANGED <<proc, fileSize, nextId>>

\* The first block of stop: the guard, then 'q' on the subprocess's stdin;
\* a broken pipe falls through to SIGINT in the same block.
StopEntry(c) ==
    /\ UNCHANGED pureVars
    /\ pc[c] = "entry" /\ op[c] = "stop"
    /\ UNCHANGED <<impl, proc, logOpen, logOnDisk, fileSize, nextId, rec>>
    /\ IF StopRefusal # ""
       THEN Ret(c, StopRefusal) /\ NoSend
       ELSE /\ loc' = [loc EXCEPT ![c] = [process |-> rec.process, path |-> rec.path,
                                          log |-> None, i |-> 0]]
            /\ \E pipeBroken \in BOOLEAN :
                  IF pipeBroken
                  THEN Send(c, "SIGINT") /\ Goto(c, "t_int")
                  ELSE Send(c, "q") /\ Goto(c, "t_q")

\* An escalation that goes back to 'q' after SIGINT.
NextStep_Restart(where) == IF where = "t_q" THEN "t_int" ELSE "t_q"

\* How many polls each escalation step makes, and what follows it.
Polls(where) == IF where = "t_q" THEN StdinPolls
                ELSE IF where = "t_int" THEN SigintPolls ELSE SigtermPolls
NextSignal(where) == IF where = "t_q" THEN "SIGINT"
                     ELSE IF where = "t_int" THEN "SIGTERM" ELSE "SIGKILL"
NextStep(where) == IF where = "t_q" THEN "t_int"
                   ELSE IF where = "t_int" THEN "t_term" ELSE "t_kill"

\* One asyncio.sleep(0.1) of a polling loop is over: poll the subprocess.
StopPoll(c) ==
    /\ UNCHANGED pureVars
    /\ pc[c] \in {"t_q", "t_int", "t_term"}
    /\ UNCHANGED impl
    /\ IF StopProc(c) = None
       THEN /\ Ret(c, Raised) /\ NoSend
            /\ UNCHANGED <<proc, logOpen, logOnDisk, fileSize, nextId, rec>>
       ELSE IF ~Alive(StopProc(c))
       THEN Finish(c) /\ NoSend
       ELSE IF loc[c].i + 1 < Polls(pc[c])
       THEN /\ loc' = [loc EXCEPT ![c].i = @ + 1]
            /\ Goto(c, pc[c]) /\ NoSend
            /\ UNCHANGED <<proc, logOpen, logOnDisk, fileSize, nextId, rec>>
       ELSE /\ Send(c, NextSignal(pc[c]))
            /\ loc' = [loc EXCEPT ![c].i = 0]
            /\ Goto(c, NextStep(pc[c]))
            /\ UNCHANGED <<proc, logOpen, logOnDisk, fileSize, nextId, rec>>

\* The wait after kill() is over.  The backend verifies by pid and kills
\* again (base.py:307-316); the server goes straight to the clean-up.
StopAfterKill(c) ==
    /\ UNCHANGED pureVars
    /\ pc[c] = "t_kill"
    /\ UNCHANGED impl
    /\ IF impl = "backend" /\ Alive(loc[c].process)
       THEN /\ Send(c, "SIGKILL_PID")
            /\ Goto(c, "t_final")
            /\ UNCHANGED <<proc, logOpen, logOnDisk, fileSize, nextId, rec, loc>>
       ELSE Finish(c) /\ NoSend

\* The wait after os.kill(pid, SIGKILL) is over.
StopFinal(c) ==
    /\ UNCHANGED pureVars
    /\ pc[c] = "t_final"
    /\ UNCHANGED impl /\ NoSend
    /\ Finish(c)

\* ------------------------------------------------------------- status
Healthy == "Recording in progress - Healthy (file growing)"
NotGrowing == "Recording in progress - Warning: File not growing!"

\* The health signal of a status call: the file exists, a size was seen
\* before and the size did not grow.  server.py:827-841, base.py:372-384.
SizeGrowing == ~(fileSize[rec.path] >= 0 /\ rec.last_size > 0
                 /\ fileSize[rec.path] <= rec.last_size)

StatusIdle == IF impl = "server" THEN ~ServerBusy ELSE ~is_recording

Status(c) ==
    /\ UNCHANGED pureVars
    /\ pc[c] = "entry" /\ op[c] = "status"
    /\ UNCHANGED <<impl, proc, logOpen, logOnDisk, fileSize, nextId>> /\ NoSend
    /\ IF StatusIdle
       THEN Ret(c, NotRecording) /\ UNCHANGED rec
       ELSE /\ rec' = IF fileSize[rec.path] >= 0
                      THEN [rec EXCEPT !.last_size = fileSize[rec.path]] ELSE rec
            /\ Ret(c, IF SizeGrowing THEN Healthy ELSE NotGrowing)

\* -------------------------------------------------- the capture subprocess
\* The subprocess exits: on a signal, on 'q', or on its own (a crash, a
\* device error).  It may also ignore every request and stay alive.
ProcExit(p) ==
    /\ UNCHANGED pureVars
    /\ proc[p] = "alive"
    /\ proc' = [proc EXCEPT ![p] = "dead"]
    /\ Quiet
    /\ UNCHANGED <<impl, logOpen, logOnDisk, fileSize, nextId, rec, pc, loc>>

\* The subprocess creates its output file, then appends to it.
FileGrow(p) ==
    /\ UNCHANGED pureVars
    /\ proc[p] = "alive"
    /\ fileSize[p] < MaxSize
    /\ fileSize' = [fileSize EXCEPT ![p] = @ + 1]
    /\ Quiet
    /\ UNCHANGED <<impl, proc, logOpen, logOnDisk, nextId, rec, pc, loc>>

\* Every interleaving of MaxCallers concurrent tool calls and the subprocesses.
\* The output file is not written here: its size only feeds the status text
\* and the deletion of the log, which SeqNext covers.
RecNext ==
    \/ \E c \in Callers, tool \in {"start", "stop", "status"} : Call(c, tool)
    \/ \E c \in Callers : StartEntry(c)
    \/ \E c \in Callers : StartAfterFocus(c)
    \/ \E c \in Callers : StartGrace(c)
    \/ \E c \in Callers : StopEntry(c)
    \/ \E c \in Callers : StopPoll(c)
    \/ \E c \in Callers : StopAfterKill(c)
    \/ \E c \in Callers : StopFinal(c)
    \/ \E c \in Callers : Status(c)
    \/ \E p \in Procs : ProcExit(p)

\* One client that waits for each answer before its next call, the
\* subprocesses, and the output files they write.
SeqNext ==
    \/ \E tool \in {"start", "stop", "status"} : Call(1, tool)
    \/ StartEntry(1)
    \/ StartAfterFocus(1)
    \/ StartGrace(1)
    \/ StopEntry(1)
    \/ StopPoll(1)
    \/ StopAfterKill(1)
    \/ StopFinal(1)
    \/ Status(1)
    \/ \E p \in Procs : ProcExit(p)
    \/ \E p \in Procs : FileGrow(p)

vars == <<recVars, pureVars>>
Init ==
    /\ RecInit
    /\ sy = SyOff /\ cap = CapOff /\ wm = WmOff /\ cc = CcOff /\ tl = TlOff /\ mx = MxOff
Next == RecNext
Spec == Init /\ [][Next]_vars
SpecSeq == Init /\ [][SeqNext]_vars

\* ======================================================================
\* Properties of the recording session
\* ======================================================================
\* A recording is active: a capture subprocess is stored and running.
Recording == rec.process # None /\ proc[rec.process] = "alive"

\* The first block of the handler of call c runs in this step.
Enters(c, tool) == pc[c] = "entry" /\ op[c] = tool /\ pc'[c] # "entry"

\* C1: a start called while a recording is active returns the
\* already-recording failure, launches no subprocess (no launch identifier is
\* used, no subprocess or log handle changes) and leaves every field of the
\* recording state unchanged.
C1_StartWhileRecording ==
    [][\A c \in Callers :
          (Enters(c, "start") /\ Recording) =>
              /\ result'[c] = AlreadyRecording
              /\ pc'[c] = "idle"
              /\ nextId' = nextId /\ proc' = proc /\ logOpen' = logOpen
              /\ rec' = rec]_vars

\* A start has just been refused while the stored subprocess runs.
C1_Witness ==
    \E c \in Callers : /\ op[c] = "start" /\ result[c] = AlreadyRecording
                       /\ Recording /\ rec = StoredState(rec.process)

\* The texts with which stop refuses when nothing is being recorded.
NotRecordingFailure == {NotRecording, AlreadyStopped}

\* C2: a stop called when no recording is active returns the not-recording
\* failure, sends no signal, and leaves the recording state unchanged and
\* not recording.
C2_StopWhenIdle ==
    [][\A c \in Callers :
          (Enters(c, "stop") /\ ~Recording) =>
              /\ result'[c] \in NotRecordingFailure
              /\ pc'[c] = "idle"
              /\ sent'[c] = <<>>
              /\ proc' = proc /\ rec' = rec /\ ~Recording']_vars

\* A stop has just been refused while the stored subprocess had exited on
\* its own.
C2_Witness ==
    \E c \in Callers : /\ op[c] = "stop" /\ result[c] \in NotRecordingFailure
                       /\ sent[c] = <<>>
                       /\ rec.process # None /\ proc[rec.process] = "dead"
\* The capture subprocesses that are running.
Running == {p \in Procs : proc[p] = "alive"}

\* C3: under every interleaving of concurrent start, stop and status calls
\* at most one capture subprocess launched by the session is alive, and no
\* start stores its state over the state of a recording that is active.
C3_OneCaptureAtATime ==
    /\ [](Cardinality(Running) <= 1)
    /\ [][\A k \in Procs : (rec.process # k /\ rec'.process = k) => ~Recording]_vars

\* C4: whenever the session is idle (no subprocess is stored), no capture
\* subprocess that the session launched is still alive.
C4_IdleMeansTerminated == rec.process = None => Running = {}

\* ======================================================================
\* Part 2: adjust_video_to_audio (the speed-sync engine), server.py:1034-1135
\* ======================================================================
\* Durations are whole ticks; the floating-point quotient video/audio is kept
\* as the exact fraction <<numerator, denominator>>.
MaxDur == 104      \* longest duration a probe reports
MaxFrames == 3     \* most frames of the input clip

Durations == -1..MaxDur

\* What ffprobe prints for format=duration: nothing, text that float()
\* rejects (ffprobe prints N/A for an unknown duration), or a number.
VideoProbes == {<<"empty", 0>>, <<"junk", 0>>} \cup {<<"num", d>> : d \in Durations}
\* For the audio the probe may also fail to run at all.
AudioProbes == VideoProbes \cup {<<"fail", 0>>}

\* How the muxer of the output container times video frames when the
\* command names no frame rate: "cfr" (mp4, mov: one frame per tick of the
\* input frame rate, so frames are dropped or repeated) or "vfr" (each
\* frame is written once, at its new timestamp).
FrameSync == {"cfr", "vfr"}

SyncInputs ==
    {i \in [vExists : BOOLEAN, aExists : BOOLEAN, ap : AudioProbes, vp : VideoProbes,
            n : 1..MaxFrames, fsync : FrameSync, ffOk : BOOLEAN] :
        \* inputs that are never read are fixed
        /\ (~i.vExists \/ ~i.aExists) => (i.ap = <<"fail", 0>> /\ i.vp = <<"empty", 0>>)
        /\ (~i.vExists \/ ~i.aExists \/ i.ap[1] # "num" \/ i.ap[2] <= 0
            \/ i.vp[1] # "num" \/ i.vp[2] <= 0)
              => (i.n = 1 /\ i.fsync = "cfr" /\ i.ffOk)
        /\ ~i.vExists => i.aExists}

\* ------------------------------------------------------------ fractions
Less(x, y) == x[1] * y[2] < y[1] * x[2]          \* x < y, denominators > 0
Leq(x, y) == x[1] * y[2] <= y[1] * x[2]
Abs(k) == IF k < 0 THEN -k ELSE k
Floor(x) == x[1] \div x[2]
Ceil(x) == -((-x[1]) \div x[2])
Round(x) == Floor(<<2 * x[1] + x[2], 2 * x[2]>>)

\* _get_audio_duration: float(stdout) or, on any exception, 0.0.
\* server.py:921-934
get_audio_duration(probe) == IF probe[1] = "num" THEN probe[2] ELSE 0

\* float(result.stdout.strip()) if result.stdout.strip() else 0
\* server.py:1069; float() raises ValueError on text that is not a number.
FloatRaises(probe) == probe[1] = "junk"
video_duration(probe) == IF probe[1] = "num" THEN probe[2] ELSE 0

\* The quotient taken the other way round.
speed_factor_Inverted(v, a) == <<a, v>>

\* speed_factor = video_duration / audio_duration      server.py:1077
speed_factor(v, a) == <<v, a>>

\* abs(speed_factor - 1.0) < 0.01                      server.py:1080
WithinTolerance(f) == Less(<<Abs(f[1] - f[2]), f[2]>>, <<1, 100>>)

\* The action text                                     server.py:1080-1088
ActionOf(f) ==
    IF WithinTolerance(f) THEN "no change needed"
    ELSE IF Less(<<1, 1>>, f) THEN "speed up" ELSE "slow down"

\* f"{x:.2f}": the hundredths nearest to x (on an exact tie either one,
\* since the double nearest to the quotient lies on one side of it).
Hundredths(x) ==
    {h \in Floor(<<100 * x[1], x[2]>>)..Ceil(<<100 * x[1], x[2]>>) :
        Abs(2 * (100 * x[1] - h * x[2])) <= x[2]}

\* The number shown in the speed text                  server.py:1082-1088
SpeedShown(f) ==
    IF WithinTolerance(f) THEN {100}
    ELSE IF Less(<<1, 1>>, f) THEN Hundredths(f) ELSE Hundredths(<<f[2], f[1]>>)

\* setpts=PTS/{speed_factor}: the new timestamp of a frame
\* server.py:1101
Retime(pts, f) == <<pts[1] * f[2], pts[2] * f[1]>>

\* Frame j (0-based) of a clip of n frames lasting v ticks.
Pts(j, n, v) == <<j * v, n>>

\* The frames of the re-encoded video, as indices of input frames.  The
\* command (server.py:1096-1110) retimes with setpts, stops at the end of
\* the shorter stream (-shortest) and names no output frame rate and no
\* frame-sync mode, so the muxer's own mode decides which frames are kept.
OutFrames(n, v, a, f, fsync) ==
    IF fsync = "vfr"
    THEN LET kept == {j \in 0..(n - 1) : Less(Retime(Pts(j, n, v), f), <<a, 1>>)}
         IN [k \in 1..Cardinality(kept) |-> k - 1]
    ELSE \* one output frame per tick 1/fps of the input rate, fps = n/v, for
         \* the length of the output (the nearest whole number of ticks)
         LET end == IF Less(Retime(<<v, 1>>, f), <<a, 1>>)
                    THEN Retime(<<v, 1>>, f) ELSE <<a, 1>>
             ticks == Round(<<end[1] * n, end[2] * v>>)
             \* the last input frame whose new timestamp is not after the tick
             shown(k) == CHOOSE j \in 0..(n - 1) :
                            /\ Leq(Retime(Pts(j, n, v), f), Pts(k, n, v))
                            /\ \A j2 \in (j + 1)..(n - 1) :
                                  ~Leq(Retime(Pts(j2, n, v), f), Pts(k, n, v))
         IN [k \in 1..ticks |-> shown(k - 1)]

\* The duration of the output: the retimed video or the audio, whichever
\* ends first (-shortest).
OutDuration(v, a, f) ==
    IF Less(Retime(<<v, 1>>, f), <<a, 1>>) THEN Retime(<<v, 1>>, f) ELSE <<a, 1>>

VideoNotFound == "Video not found"
AudioNotFound == "Audio not found"
NoAudioDuration == "Could not determine audio duration"
NoVideoDuration == "Could not determine video duration"
EncodeError == "Error: ffmpeg stderr"
Synced == "Video synced to audio!"

\* An outcome in which the re-encode was not launched.
Early(text) == [st |-> "out", result |-> text, ran |-> FALSE, written |-> FALSE]

\* _adjust_video_to_audio                              server.py:1034-1135
adjust_video_to_audio(i) ==
    IF ~i.vExists THEN {Early(VideoNotFound)}
    ELSE IF ~i.aExists THEN {Early(AudioNotFound)}
    ELSE IF get_audio_duration(i.ap) <= 0 THEN {Early(NoAudioDuration)}
    ELSE IF FloatRaises(i.vp) THEN {Early(Raised)}
    ELSE IF video_duration(i.vp) <= 0 THEN {Early(NoVideoDuration)}
    ELSE LET a == get_audio_duration(i.ap)
             v == video_duration(i.vp)
             f == speed_factor(v, a)
         IN IF ~i.ffOk
            THEN {[st |-> "out", result |-> EncodeError, ran |-> TRUE, written |-> FALSE]}
            ELSE {[st |-> "out", result |-> Synced, ran |-> TRUE, written |-> TRUE,
                   factor |-> f, action |-> ActionOf(f), shown |-> h,
                   frames |-> OutFrames(i.n, v, a, f, i.fsync),
                   duration |-> OutDuration(v, a, f)] : h \in SpeedShown(f)}

SyncInit ==
    /\ RecInit /\ impl = "server"
    /\ cap = CapOff /\ wm = WmOff /\ cc = CcOff /\ tl = TlOff /\ mx = MxOff
    /\ \E i \in SyncInputs : sy = [st |-> "in", in |-> i]

\* The tool is called once with the drawn inputs.
SyncCall ==
    /\ sy.st = "in"
    /\ \E out \in adjust_video_to_audio(sy.in) : sy' = [out EXCEPT !.st = "out"] @@ [in |-> sy.in]
    /\ UNCHANGED <<recVars, cap, wm, cc, tl, mx>>

SpecSync == SyncInit /\ [][SyncCall]_vars

\* ---------------------------------------------------------- sync claims
SyncDone == sy.st = "out" /\ sy.result = Synced
VideoTicks == sy.in.vp[2]
AudioTicks == sy.in.ap[2]

\* C5: for positive durations v and a the factor is v / a and exactly one
\* action is reported: unchanged when |factor - 1| < 0.01, otherwise speed
\* up by factor when v > a, otherwise slow down by 1 / factor; the number
\* shown is the nearest hundredth (12 and 8 give 1.50x faster, 8 and 12
\* give 1.50x slower).
C5_FactorAndAction ==
    SyncDone =>
        LET v == VideoTicks
            a == AudioTicks
            close == 100 * Abs(v - a) < a
        IN /\ v > 0 /\ a > 0
           /\ sy.factor[1] * a = v * sy.factor[2] /\ sy.factor[2] > 0
           /\ sy.action \in {"no change needed", "speed up", "slow down"}
           /\ (sy.action = "no change needed") <=> close
           /\ (sy.action = "speed up") <=> (~close /\ v > a)
           /\ (sy.action = "slow down") <=> (~close /\ v < a)
           /\ close => sy.shown = 100
           /\ (~close /\ v > a) => 2 * Abs(sy.shown * a - 100 * v) <= a
           /\ (~close /\ v < a) => 2 * Abs(sy.shown * v - 100 * a) <= v
           /\ (v = 12 /\ a = 8) => (sy.action = "speed up" /\ sy.shown = 150)
           /\ (v = 8 /\ a = 12) => (sy.action = "slow down" /\ sy.shown = 150)

C5_Witness ==
    /\ SyncDone /\ VideoTicks = 12 /\ AudioTicks = 8
    /\ sy.action = "speed up" /\ sy.shown = 150 /\ sy.factor = <<12, 8>>

\* C6: when the audio probe fails or gives a duration <= 0 the result names
\* the audio, when the video probe gives empty, non-numeric or <= 0 output
\* the result names the video, and in both cases the re-encode is not
\* launched and no output file is written.
C6_ProbeFailureNamesTheFile ==
    (sy.st = "out" /\ sy.in.vExists /\ sy.in.aExists) =>
        LET audioBad == sy.in.ap[1] # "num" \/ sy.in.ap[2] <= 0
            videoBad == sy.in.vp[1] # "num" \/ sy.in.vp[2] <= 0
        IN /\ audioBad => (sy.result = NoAudioDuration /\ ~sy.ran /\ ~sy.written)
           /\ (~audioBad /\ videoBad) =>
                  (sy.result = NoVideoDuration /\ ~sy.ran /\ ~sy.written)

\* C7: when the durations are equal within the 0.01 tolerance the action
\* is unchanged and the output lasts exactly as long as the input video.
C7_UnchangedKeepsDuration ==
    (SyncDone /\ 100 * Abs(VideoTicks - AudioTicks) < AudioTicks) =>
        /\ sy.action = "no change needed"
        /\ sy.duration[1] = VideoTicks * sy.duration[2]

\* C8: the output has exactly the frames of the input, each once and in
\* order, and the last retimed timestamp is not after the audio duration.
C8_EveryFrameOnce ==
    SyncDone =>
        /\ sy.frames = [k \in 1..sy.in.n |-> k - 1]
        /\ Leq(Retime(Pts(sy.in.n - 1, sy.in.n, VideoTicks), sy.factor), <<AudioTicks, 1>>)

\* ======================================================================
\* Part 3: the capture-target resolver on macOS, backends/host.py:111-355
\* ======================================================================
MaxOff == 1        \* window edges lie within MaxOff pixels of a screen edge

Max(x, y) == IF x > y THEN x ELSE y
Min(x, y) == IF x < y THEN x ELSE y

\* A screen as _get_macos_screens builds it; index is the 1-based position
\* of its line.                                       host.py:237-244
Screen(i, x, y, w, h, sc) ==
    [index |-> i, x |-> x, y |-> y, width |-> w, height |-> h, scale |-> sc]

\* The list returned when osascript fails or prints nothing.
\* host.py:245-247
DefaultScreens == <<Screen(1, 0, 0, 1920, 1080, 2)>>

\* The two screens of the documented layout: screen 1 spans x in [0, 1728),
\* screen 2 spans [1728, 3648) at scale 1.
ScenarioScreens == <<Screen(1, 0, 0, 1728, 1117, 2), Screen(2, 1728, 0, 1920, 1080, 1)>>
ScenarioWindow == [x |-> 1800, y |-> 100, width |-> 800, height |-> 600]

\* Screen arrangements (the screens of an arrangement never overlap).
Layouts ==
    { <<Screen(1, 0, 0, 120, 100, 1)>>,
      <<Screen(1, 0, 0, 121, 101, 1)>>,
      <<Screen(1, 0, 0, 120, 100, 2)>>,
      <<Screen(1, 0, 0, 120, 100, 2), Screen(2, 120, 0, 140, 130, 1)>>,
      <<Screen(1, 0, 0, 120, 100, 1), Screen(2, -140, -30, 140, 130, 2)>>,
      ScenarioScreens }

Near(a) == (a - MaxOff)..(a + MaxOff)
EdgesX(screens) ==
    UNION {Near(screens[k].x) \cup Near(screens[k].x + screens[k].width) :
              k \in 1..Len(screens)}
EdgesY(screens) ==
    UNION {Near(screens[k].y) \cup Near(screens[k].y + screens[k].height) :
              k \in 1..Len(screens)}

\* Windows of positive size whose edges lie near screen edges, and the
\* window of the documented layout.
WindowsOn(screens) ==
    IF screens = ScenarioScreens THEN {ScenarioWindow}
    ELSE {[x |-> e[1], y |-> e[3], width |-> e[2] - e[1], height |-> e[4] - e[3]] :
             e \in {q \in EdgesX(screens) \X EdgesX(screens) \X
                          EdgesY(screens) \X EdgesY(screens) :
                       q[1] < q[2] /\ q[3] < q[4]}}

NoBounds == [x |-> 0, y |-> 0, width |-> 0, height |-> 0]
NoProbe == <<0, 0>>

\* What the device listing shows: nothing (the listing cannot be obtained),
\* or <<c, s>>: c cameras, listed first, and then s screens.
NoListing == <<-1, 0>>
Listings == {NoListing, <<0, 2>>, <<2, 2>>, <<2, 1>>, <<1, 0>>}

\* The video devices of a listing, "[index] name": the cameras, then
\* "Capture screen 0", "Capture screen 1", ...; screen is -1 for a camera.
ListedDevices(c) ==
    [k \in 1..(c[1] + c[2]) |->
        [index |-> k - 1, screen |-> IF k <= c[1] THEN -1 ELSE k - 1 - c[1]]]

\* What the probe of the capture device can report: nothing, or the size
\* of one of the attached screens in points or in pixels.  The pattern
\* (\d{3,5})x(\d{3,5}) only matches sizes of three to five digits.
\* host.py:272
ProbeOutcomes(screens) ==
    {NoProbe} \cup
    {d \in {<<screens[k].width * sc, screens[k].height * sc>> :
               k \in 1..Len(screens), sc \in {1, 2}} :
        /\ d[1] >= 100 /\ d[1] <= 99999
        /\ d[2] >= 100 /\ d[2] <= 99999}

\* One call: the attached screens, whether osascript listed them, whether
\* the window was found and its bounds, the probe and the device listing.
CaptureInput(l, li, f, w, p, c) ==
    [layout |-> l, listed |-> li, found |-> f, b |-> w, probe |-> p, cams |-> c]

\* _get_macos_screens: the parsed list, or the default when osascript
\* fails or prints no screen.                          host.py:197-247
get_macos_screens(i) == IF i.listed THEN i.layout ELSE DefaultScreens

\* if overlap_right > overlap_left and overlap_bottom > overlap_top
\* host.py:331-336
Overlaps(b, s) ==
    /\ Min(b.x + b.width, s.x + s.width) > Max(b.x, s.x)
    /\ Min(b.y + b.height, s.y + s.height) > Max(b.y, s.y)

\* A weakened overlap: the width of the intersection only.
OverlapArea_WidthOnly(b, s) == Min(b.x + b.width, s.x + s.width) - Max(b.x, s.x)

\* overlap_area                                        host.py:337
OverlapArea(b, s) ==
    (Min(b.x + b.width, s.x + s.width) - Max(b.x, s.x))
        * (Min(b.y + b.height, s.y + s.height) - Max(b.y, s.y))

\* The loop over the screens: the position of best_screen (0 for None)
\* after the screens from position k on.               host.py:326-340
RECURSIVE BestScreen(_, _, _, _, _)
BestScreen(b, screens, k, best, best_overlap) ==
    IF k > Len(screens) THEN best
    ELSE IF Overlaps(b, screens[k]) /\ OverlapArea(b, screens[k]) > best_overlap
         THEN BestScreen(b, screens, k + 1, k, OverlapArea(b, screens[k]))
         ELSE BestScreen(b, screens, k + 1, best, best_overlap)

\* _find_screen_for_window: <<screen_index, relative_x, relative_y, scale>>
\* host.py:319-355
find_screen_for_window(b, screens) ==
    LET best == BestScreen(b, screens, 1, 0, 0)
    IN IF best # 0
       THEN <<screens[best].index, Max(0, b.x - screens[best].x),
              Max(0, b.y - screens[best].y), screens[best].scale>>
       ELSE <<1, Max(0, b.x), Max(0, b.y), 2>>

\* A resolution that assumes the screens are listed right after one camera.
get_avfoundation_screen_index_Assumed(nsscreen_index, cams) == nsscreen_index

\* _get_avfoundation_screen_index: the index of the first device listed as
\* "Capture screen nsscreen_index - 1"; nsscreen_index when the listing
\* fails or has no such line.                          host.py:279-312
get_avfoundation_screen_index(nsscreen_index, cams) ==
    LET devices == ListedDevices(cams)
        match == {k \in DOMAIN devices : devices[k].screen = nsscreen_index - 1}
    IN IF cams = NoListing \/ match = {} THEN nsscreen_index
       ELSE devices[CHOOSE k \in match : \A m \in match : k <= m].index

EvenDown(k) == IF k % 2 = 0 THEN k ELSE k - 1      \* host.py:173-174, 184-185
EvenUp(k) == IF k % 2 = 0 THEN k ELSE k + 1        \* host.py:177-178

WindowNotFound == "Window not found"

\* _get_macos_capture_args                             host.py:111-195
get_macos_capture_args(i) ==
    IF ~i.found THEN [st |-> "out", in |-> i, error |-> WindowNotFound]
    ELSE
    LET bounds == i.b
        screen_info == get_macos_screens(i)
        found == find_screen_for_window(bounds, screen_info)
        nsscreen_index == found[1]
        crop_x == found[2]
        crop_y == found[3]
        scale_factor == found[4]
        matching == {k \in 1..Len(screen_info) : screen_info[k].index = nsscreen_index}
        capture_screen == IF matching # {}
                          THEN screen_info[CHOOSE k \in matching : \A m \in matching : k <= m]
                          ELSE screen_info[1]
        capture_width == IF i.probe # NoProbe THEN i.probe[1]
                         ELSE capture_screen.width * capture_screen.scale
        capture_height == IF i.probe # NoProbe THEN i.probe[2]
                          ELSE capture_screen.height * capture_screen.scale
        scaled_crop_x == crop_x * scale_factor
        scaled_crop_y == crop_y * scale_factor
        scaled_width == Max(2, Min(bounds.width * scale_factor, capture_width - scaled_crop_x))
        scaled_height == Max(2, Min(bounds.height * scale_factor, capture_height - scaled_crop_y))
        width == EvenDown(scaled_width)
        height == EvenDown(scaled_height)
        crop_x_final == EvenUp(scaled_crop_x)
        crop_y_final == EvenUp(scaled_crop_y)
        clamp == crop_x_final + width > capture_width \/ crop_y_final + height > capture_height
    IN [st |-> "out", in |-> i, error |-> "",
        screen |-> nsscreen_index, relative_x |-> crop_x, relative_y |-> crop_y,
        scale |-> scale_factor,
        device |-> get_avfoundation_screen_index(nsscreen_index, i.cams),
        capture_width |-> capture_width, capture_height |-> capture_height,
        width |-> IF clamp THEN Max(2, EvenDown(Min(width, capture_width - crop_x_final)))
                  ELSE width,
        height |-> IF clamp THEN Max(2, EvenDown(Min(height, capture_height - crop_y_final)))
                   ELSE height,
        crop_x |-> crop_x_final, crop_y |-> crop_y_final]

CaptureInit ==
    /\ RecInit /\ impl = "backend"
    /\ sy = SyOff /\ wm = WmOff /\ cc = CcOff /\ tl = TlOff /\ mx = MxOff
    /\ \E l \in Layouts :
          \/ \E li \in BOOLEAN, w \in WindowsOn(l), p \in ProbeOutcomes(l), c \in Listings :
                cap = [st |-> "in", in |-> CaptureInput(l, li, TRUE, w, p, c)]
          \/ cap = [st |-> "in", in |-> CaptureInput(l, TRUE, FALSE, NoBounds, NoProbe, NoListing)]

\* The resolver is called once with the drawn inputs.
Resolve ==
    /\ cap.st = "in"
    /\ cap' = get_macos_capture_args(cap.in)
    /\ UNCHANGED <<recVars, sy, wm, cc, tl, mx>>

SpecCapture == CaptureInit /\ [][Resolve]_vars

\* --------------------------------------------------------- resolver claims
Resolved == cap.st = "out" /\ cap.error = ""
SeenScreens == get_macos_screens(cap.in)

\* The area a window and a screen have in common.
Common(b, s) ==
    LET w == Min(b.x + b.width, s.x + s.width) - Max(b.x, s.x)
        h == Min(b.y + b.height, s.y + s.height) - Max(b.y, s.y)
    IN IF w > 0 /\ h > 0 THEN w * h ELSE 0

Inside(b, s) ==
    /\ s.x <= b.x /\ b.x + b.width <= s.x + s.width
    /\ s.y <= b.y /\ b.y + b.height <= s.y + s.height

\* C9: the screen chosen has the greatest area in common with the window:
\* a window inside one screen resolves to that screen, a window with
\* strictly more area on one screen than on every other resolves to it,
\* and the relative origin is the window's origin within that screen (the
\* window at x=1800, y=100, 800 by 600 on the documented layout resolves
\* to screen 2 at relative x = 72).
C9_GreatestOverlap ==
    Resolved =>
        LET b == cap.in.b
            S == SeenScreens
            chosen == CHOOSE k \in 1..Len(S) : S[k].index = cap.screen
        IN /\ \E k \in 1..Len(S) : S[k].index = cap.screen
           /\ \A k \in 1..Len(S) : Common(b, S[chosen]) >= Common(b, S[k])
           /\ \A k \in 1..Len(S) : Inside(b, S[k]) => cap.screen = S[k].index
           /\ \A k \in 1..Len(S) :
                  (\A m \in 1..Len(S) : m # k => Common(b, S[k]) > Common(b, S[m]))
                      => cap.screen = S[k].index
           /\ Common(b, S[chosen]) > 0 =>
                  /\ cap.relative_x = Max(0, b.x - S[chosen].x)
                  /\ cap.relative_y = Max(0, b.y - S[chosen].y)
                  /\ cap.scale = S[chosen].scale
           /\ (b = ScenarioWindow /\ S = ScenarioScreens) =>
                  (cap.screen = 2 /\ cap.relative_x = 72)

C9_Witness ==
    /\ Resolved /\ cap.in.b = ScenarioWindow /\ SeenScreens = ScenarioScreens
    /\ cap.screen = 2 /\ cap.relative_x = 72

\* C10: the crop rectangle lies within the capture frame.
C10_CropWithinCapture ==
    Resolved =>
        /\ cap.crop_x + cap.width <= cap.capture_width
        /\ cap.crop_y + cap.height <= cap.capture_height

\* ======================================================================
\* Part 4: the window manager (utils/window_manager.py) and the resolvers
\* of the container, Linux and Windows backends
\* ======================================================================
MaxWins == 2       \* most lines the platform's window listing prints

\* The requested title pattern as it appears in a message, and the hint
\* that sends the caller back to the window list.
Pattern == "{window_title}"
ListHint == "Use list_windows to see available windows."

\* Window titles: re.search of the requested pattern matches the first
\* and not the second.
Titles == {"Demo - Mozilla Firefox", "Terminal"}
Matches(t) == t = "Demo - Mozilla Firefox"

\* What a line of `wmctrl -l -G -p` can look like: all fields numeric, pid
\* printed as -1, fewer than nine fields (e.g. no title), or a pid or a
\* geometry field that int() rejects.       window_manager.py:638-646
LinuxShapes == {"ok", "nopid", "short", "badpid", "badgeom"}

\* What a line of the CGWindowList script can look like: complete, pid
\* not a number, bounds that float() rejects, fewer than five fields, or
\* a window smaller than 50x50.             window_manager.py:168-190
MacShapes == {"ok", "nopid", "nobounds", "short", "tiny"}

MacApps == {"Google Chrome", "Safari"}

\* The bounds listed for the first window; every further geometry lies
\* 100 pixels further right and down (BoundsAt).
ListedBounds ==
    {[x |-> o, y |-> o, width |-> s[1], height |-> s[2]] :
        o \in {0, 60}, s \in {<<800, 600>>, <<801, 601>>}}

SeqsUpTo(S, n) == UNION {[1..k -> S] : k \in 0..n}

LinuxLines == [shape : LinuxShapes, title : Titles, app : {""}]
MacLines == [shape : MacShapes, title : Titles, app : MacApps]
WinLines == [shape : {"ok"}, title : Titles, app : {""}]

\* One environment: the platform, whether the process runs in the
\* container, which helpers are installed, what the listing prints, what
\* the id lookup (xdotool, the CGWindowList id script) finds for the
\* pattern it is given, what Chrome and System Events report (titles, or
\* an error), which applications are visible, and the bounds of the
\* windows.
WmEnv(plat, cont, wmctrl, xdotool, lines, idFound, chrome, se, seRaises, apps, b) ==
    [plat |-> plat, container |-> cont, wmctrl |-> wmctrl, xdotool |-> xdotool,
     lines |-> lines, idFound |-> idFound, chrome |-> chrome, se |-> se,
     seRaises |-> seRaises, apps |-> apps, b |-> b]

\* A WindowInfo: pid is "none" when absent; bounds is 0 when absent, else
\* the number of the geometry that was read (the position of the line in
\* its listing, plus 100 for Chrome's listing and 200 for System Events').
WindowInfo(title, app, pid, bounds) ==
    [title |-> title, app_name |-> app, pid |-> pid, bounds |-> bounds]

\* The outcome of a call: a value, or an exception with its message.
Ok(val) == [exc |-> "none", msg |-> <<>>, val |-> val]
Raise(cls, msg) == [exc |-> cls, msg |-> msg, val |-> <<>>]
Range(s) == {s[k] : k \in DOMAIN s}

\* The WindowBounds read as geometry number g.
BoundsAt(e, g) ==
    [x |-> e.b.x + 100 * (g - 1), y |-> e.b.y + 100 * (g - 1),
     width |-> e.b.width, height |-> e.b.height]

\* check_dependencies                         window_manager.py:56-104
Missing(e) ==
    IF e.plat # "linux" THEN <<>>
    ELSE (IF e.wmctrl THEN <<>> ELSE <<"wmctrl">>) \o
         (IF e.xdotool THEN <<>> ELSE <<"xdotool">>)

check_dependencies(e) ==
    [platform |-> e.plat, available |-> Missing(e) = <<>>, missing |-> Missing(e),
     message |-> IF e.plat = "macos"
                 THEN <<"macOS: Using built-in AppleScript (osascript)">>
                 ELSE IF e.plat = "windows"
                 THEN <<"Windows: Using built-in Win32 API (ctypes)">>
                 ELSE IF Missing(e) = <<>> THEN <<"Linux: wmctrl and xdotool available">>
                 ELSE <<"Linux: Missing tools: ">> \o Missing(e) \o
                      <<". Install with: sudo apt install ">> \o Missing(e)]

\* _linux_check_deps: "" or the exception raised.   window_manager.py:620-624
linux_check_deps(e) ==
    IF check_dependencies(e).available THEN Ok(TRUE)
    ELSE Raise("DependencyMissingError", check_dependencies(e).message)

\* The WindowInfo built from one wmctrl line.        window_manager.py:643-653
LinuxInfo(l, k) ==
    WindowInfo(l.title, "", IF l.shape = "nopid" THEN "none" ELSE "num", k)

\* The records of the lines from position k on (lines of fewer than nine
\* fields are passed over).                          window_manager.py:638-653
RECURSIVE LinuxRecords(_, _)
LinuxRecords(lines, k) ==
    IF k > Len(lines) THEN <<>>
    ELSE IF lines[k].shape = "short" THEN LinuxRecords(lines, k + 1)
    ELSE <<LinuxInfo(lines[k], k)>> \o LinuxRecords(lines, k + 1)

\* _linux_list_windows: int() of a pid or geometry field that is not a
\* number raises ValueError inside the try, which becomes a
\* WindowManagerError for the whole call.            window_manager.py:627-659
linux_list_windows(e) ==
    IF linux_check_deps(e).exc # "none" THEN linux_check_deps(e)
    ELSE IF \E k \in DOMAIN e.lines : e.lines[k].shape \in {"badpid", "badgeom"}
    THEN Raise("WindowManagerError", <<"Failed to list windows: ", "ValueError">>)
    ELSE Ok(LinuxRecords(e.lines, 1))

\* re.search of the requested pattern in an application name: it matches
\* Safari only.
MatchesApp(a) == a = "Safari"

\* A selection that takes the last matching window instead of the first.
FirstMatch_Last(wins, byApp) ==
    LET hits == {k \in DOMAIN wins :
                    Matches(wins[k].title) \/ (byApp /\ MatchesApp(wins[k].app_name))}
    IN IF hits = {} THEN 0 ELSE CHOOSE k \in hits : \A m \in hits : k >= m

\* The first record the pattern matches (title only, or title or
\* application name): its position, 0 for none.
FirstMatch(wins, byApp) ==
    LET hits == {k \in DOMAIN wins :
                    Matches(wins[k].title) \/ (byApp /\ MatchesApp(wins[k].app_name))}
    IN IF hits = {} THEN 0 ELSE CHOOSE k \in hits : \A m \in hits : k <= m

NoMatch == <<"No window matching '", Pattern, "'">>

\* _linux_get_window_bounds (it does not check the helpers itself; the
\* listing does).                                    window_manager.py:688-699
linux_get_window_bounds(e) ==
    LET l == linux_list_windows(e)
        k == FirstMatch(l.val, FALSE)
    IN IF l.exc # "none" THEN l
       ELSE IF k = 0 THEN Raise("WindowNotFoundError", NoMatch)
       ELSE IF l.val[k].bounds = 0
       THEN Raise("WindowManagerError", <<"Could not get bounds for window">>)
       ELSE Ok(BoundsAt(e, l.val[k].bounds))

\* _linux_get_window_id: the first id xdotool prints, else None.
\* window_manager.py:702-717
linux_get_window_id(e) ==
    IF linux_check_deps(e).exc # "none" THEN linux_check_deps(e)
    ELSE Ok(e.idFound)

\* _linux_focus_window                               window_manager.py:662-685
linux_focus_window(e) ==
    IF linux_check_deps(e).exc # "none" THEN linux_check_deps(e)
    ELSE LET l == linux_list_windows(e)
         IN IF l.exc # "none" THEN l
            ELSE IF FirstMatch(l.val, FALSE) # 0 THEN Ok(TRUE)
            ELSE Raise("WindowNotFoundError", NoMatch)

\* The WindowInfo built from one CGWindowList line.  window_manager.py:176-199
MacInfo(l, k) ==
    WindowInfo(l.title, l.app, IF l.shape = "nopid" THEN "none" ELSE "num",
               IF l.shape = "nobounds" THEN 0 ELSE k)

\* _macos_list_windows_cg: lines of fewer than five fields and windows
\* smaller than 50x50 are passed over.               window_manager.py:111-203
RECURSIVE macos_list_windows_cg(_, _)
macos_list_windows_cg(lines, k) ==
    IF k > Len(lines) THEN <<>>
    ELSE IF lines[k].shape \in {"short", "tiny"} THEN macos_list_windows_cg(lines, k + 1)
    ELSE <<MacInfo(lines[k], k)>> \o macos_list_windows_cg(lines, k + 1)

\* _macos_list_chrome_windows: one record per Chrome window with a tab
\* title.                                            window_manager.py:206-271
macos_list_chrome_windows(e) ==
    [k \in DOMAIN e.chrome |-> WindowInfo(e.chrome[k], "Google Chrome", "none", 100 + k)]

\* _macos_list_windows_system_events: one record per window System Events
\* reports (when it does not fail).                  window_manager.py:274-349
macos_list_windows_system_events(e) ==
    [k \in DOMAIN e.se |-> WindowInfo(e.se[k], "Finder", "num", 200 + k)]

\* The records of ws not yet seen by (app_name, title), appended to all.
\* window_manager.py:360-365
RECURSIVE AddUnseen(_, _, _)
AddUnseen(all, ws, k) ==
    IF k > Len(ws) THEN all
    ELSE IF \E m \in DOMAIN all : all[m].app_name = ws[k].app_name /\ all[m].title = ws[k].title
         THEN AddUnseen(all, ws, k + 1)
         ELSE AddUnseen(Append(all, ws[k]), ws, k + 1)

\* The Chrome records whose title no Chrome record of all has.
\* window_manager.py:370-375
RECURSIVE AddChrome(_, _, _)
AddChrome(all, ws, k) ==
    IF k > Len(ws) THEN all
    ELSE IF \E m \in DOMAIN all : all[m].title = ws[k].title /\ all[m].app_name = "Google Chrome"
         THEN AddChrome(all, ws, k + 1)
         ELSE AddChrome(Append(all, ws[k]), ws, k + 1)

\* _macos_list_windows_fallback: one record per visible application.
\* window_manager.py:398-429
macos_list_windows_fallback(e) ==
    [k \in DOMAIN e.apps |-> WindowInfo(e.apps[k], e.apps[k], "none", 0)]

\* _macos_list_windows: the CGWindowList records, then Chrome's, then
\* System Events' if there are none so far (its error is swallowed), then
\* the visible applications if there are still none.
\* window_manager.py:352-395
macos_list_windows(e) ==
    LET cg == AddUnseen(<<>>, macos_list_windows_cg(e.lines, 1), 1)
        withChrome == AddChrome(cg, macos_list_chrome_windows(e), 1)
        withSe == IF withChrome = <<>> /\ ~e.seRaises
                  THEN AddUnseen(withChrome, macos_list_windows_system_events(e), 1)
                  ELSE withChrome
    IN IF withSe = <<>> THEN macos_list_windows_fallback(e) ELSE withSe

\* _windows_list_windows: every visible window with a title, with its pid
\* and rectangle.                                    window_manager.py:755-792
windows_list_windows(e) ==
    [k \in DOMAIN e.lines |-> WindowInfo(e.lines[k].title, "", "num", k)]

\* list_windows                                      window_manager.py:875-886
list_windows(e) ==
    IF e.plat = "macos" THEN Ok(macos_list_windows(e))
    ELSE IF e.plat = "linux" THEN linux_list_windows(e)
    ELSE Ok(windows_list_windows(e))

\* _macos_get_window_bounds, _windows_get_window_bounds: the bounds of the
\* first match, an error when it has none.  window_manager.py:500-511, 819-830
listed_get_window_bounds(wins, byApp) ==
    LET k == FirstMatch(wins, byApp)
    IN IF k = 0 THEN Raise("WindowNotFoundError", NoMatch)
       ELSE IF wins[k].bounds = 0
       THEN Raise("WindowManagerError", <<"Could not get bounds for window">>)
       ELSE Ok(wins[k].bounds)

\* get_window_bounds                                 window_manager.py:903-914
get_window_bounds(e) ==
    IF e.plat = "linux" THEN linux_get_window_bounds(e)
    ELSE LET r == IF e.plat = "macos"
                  THEN listed_get_window_bounds(macos_list_windows(e), TRUE)
                  ELSE listed_get_window_bounds(windows_list_windows(e), FALSE)
         IN IF r.exc = "none" THEN Ok(BoundsAt(e, r.val)) ELSE r

\* get_window_id: on macOS what the CGWindowList id script finds, on
\* Windows the first listed match.          window_manager.py:514-556, 833-842, 917-929
get_window_id(e) ==
    IF e.plat = "linux" THEN linux_get_window_id(e)
    ELSE IF e.plat = "macos" THEN Ok(e.idFound)
    ELSE Ok(FirstMatch(windows_list_windows(e), FALSE) # 0)

\* focus_window: on macOS and Windows the first listed match is raised
\* (on macOS the application is made frontmost when the window cannot be).
\* window_manager.py:432-497, 795-816, 889-900
focus_window(e) ==
    IF e.plat = "linux" THEN linux_focus_window(e)
    ELSE IF FirstMatch(IF e.plat = "macos" THEN macos_list_windows(e)
                       ELSE windows_list_windows(e), e.plat = "macos") # 0
    THEN Ok(TRUE)
    ELSE Raise("WindowNotFoundError", NoMatch)

\* ---------------------------------------------------------------------
\* The backends' wrappers and resolvers
\* ---------------------------------------------------------------------
\* What a resolver hands back: capture arguments, an error message, or
\* an exception it lets through.
CaptureArgs(grab, w, h, x, y) ==
    [kind |-> "args", grab |-> grab, width |-> w, height |-> h, x |-> x, y |-> y,
     msg |-> <<>>, exc |-> "none"]
CaptureFail(msg) ==
    [kind |-> "error", grab |-> "", width |-> 0, height |-> 0, x |-> 0, y |-> 0,
     msg |-> msg, exc |-> "none"]
CaptureRaise(r) ==
    [kind |-> "raise", grab |-> "", width |-> 0, height |-> 0, x |-> 0, y |-> 0,
     msg |-> r.msg, exc |-> r.exc]

\* ContainerBackend.detect_browser_window: the first browser pattern the
\* id lookup finds; an exception of the lookup moves on to the next
\* pattern, and None is returned when none is left.   container.py:39-49
detect_browser_window(e) ==
    IF get_window_id(e).exc # "none" THEN "None"
    ELSE IF get_window_id(e).val THEN "Nightly" ELSE "None"

\* ContainerBackend.get_capture_args                    container.py:51-88
container_get_capture_args(e) ==
    LET id == get_window_id(e)
        bnd == get_window_bounds(e)
    IN IF id.exc # "none" THEN CaptureRaise(id)
       ELSE IF ~id.val
       THEN CaptureFail(<<"Window '", Pattern, "' not found. ", ListHint>>)
       ELSE IF bnd.exc # "none"
       THEN CaptureFail(<<"Could not get window bounds: ">> \o bnd.msg)
       ELSE CaptureArgs("x11grab", EvenUp(bnd.val.width), EvenUp(bnd.val.height),
                        IF bnd.val.x < 50 THEN 0 ELSE bnd.val.x,
                        IF bnd.val.y < 50 THEN 0 ELSE bnd.val.y)

\* HostBackend._get_linux_capture_args                     host.py:365-393
linux_get_capture_args(e) ==
    LET id == get_window_id(e)
        bnd == get_window_bounds(e)
    IN IF id.exc # "none" THEN CaptureRaise(id)
       ELSE IF ~id.val THEN CaptureFail(<<"Window '", Pattern, "' not found.">>)
       ELSE IF bnd.exc # "none"
       THEN CaptureFail(<<"Could not get window bounds: ">> \o bnd.msg)
       ELSE CaptureArgs("x11grab", EvenUp(bnd.val.width), EvenUp(bnd.val.height),
                        bnd.val.x, bnd.val.y)

\* HostBackend._get_windows_capture_args: gdigrab by title, with no
\* lookup and no size.                                     host.py:395-405
windows_get_capture_args(e) == CaptureArgs("gdigrab", 0, 0, 0, 0)

\* get_capture_args of the backend in use (the macOS resolver is
\* get_macos_capture_args).               container.py:51-88, host.py:94-109
get_capture_args(e) ==
    IF e.container THEN container_get_capture_args(e)
    ELSE IF e.plat = "linux" THEN linux_get_capture_args(e)
    ELSE windows_get_capture_args(e)

\* The backends' get_window_bounds and focus_window: any exception becomes
\* None or False.                 container.py:90-104, host.py:407-421
backend_get_window_bounds(e) ==
    IF get_window_bounds(e).exc = "none"
    THEN [found |-> TRUE, b |-> get_window_bounds(e).val]
    ELSE [found |-> FALSE, b |-> [x |-> 0, y |-> 0, width |-> 0, height |-> 0]]

backend_focus_window(e) ==
    IF focus_window(e).exc = "none" THEN focus_window(e).val ELSE FALSE

\* The output size start_recording scales to when the resolver gave none:
\* the window's bounds, or 1920x1080, trimmed to even.      base.py:150-162
output_size(e) ==
    LET b == backend_get_window_bounds(e)
    IN IF b.found THEN [width |-> EvenDown(b.b.width), height |-> EvenDown(b.b.height)]
       ELSE [width |-> EvenDown(1920), height |-> EvenDown(1080)]

\* ---------------------------------------------------------------------
\* The specification of the window operations: one environment is drawn,
\* then one operation is applied to it.
\* ---------------------------------------------------------------------
WmIn(e) == [st |-> "in", env |-> e]
WmOut(e, o, out) == [st |-> "out", env |-> e, op |-> o, out |-> out]

\* The windows of a desktop with browsers and an editor: a title is either
\* URL-like (and longer than 50 characters) or not.
MaxListed == 3
LongTitle == "http://localhost:3000/dashboard/projects/demo/recordings"
DetectApps == {"Safari", "Cursor", "Terminal"}
DetectLines == [shape : {"ok"}, title : {LongTitle, "Terminal"}, app : DetectApps]

browser_apps == {"Google Chrome", "Firefox", "Safari", "Arc", "Brave", "Edge", "Chromium"}

\* any(x in title.lower() for x in ['http', 'localhost', '.com', '.io', '.org'])
UrlLike(t) == t = LongTitle

\* title[:50]
First50(t) == IF t = LongTitle THEN "http://localhost:3000/dashboard/projects/demo/reco" ELSE t

\* The least index of wins that satisfies P, or 0.
FirstWith(wins, P(_)) ==
    IF \E k \in DOMAIN wins : P(wins[k])
    THEN CHOOSE k \in DOMAIN wins : P(wins[k]) /\ \A m \in 1..(k - 1) : ~P(wins[m])
    ELSE 0

\* A detection that takes the first window that is a browser, URL-like or
\* the editor, whichever comes first in the listing.
host_detect_browser_window_OnePass(e) ==
    LET l == list_windows(e)
        wins == l.val
        IsAny(w) == \/ w.app_name \in browser_apps
                    \/ UrlLike(w.title) /\ w.app_name # "Cursor"
                    \/ w.app_name = "Cursor"
        k == FirstWith(wins, IsAny)
    IN IF l.exc # "none" THEN "None"
       ELSE IF k = 0 THEN "None"
       ELSE IF wins[k].app_name \in browser_apps THEN wins[k].app_name
       ELSE IF wins[k].app_name = "Cursor" THEN "Cursor"
       ELSE First50(wins[k].title)

\* HostBackend.detect_browser_window: the app_name of the first window of
\* a known browser; else the first 50 characters of the first URL-like
\* title of a window that is not Cursor's; else "Cursor" when Cursor has a
\* window; else None, also when the listing raises.       host.py:50-92
host_detect_browser_window(e) ==
    LET l == list_windows(e)
        wins == l.val
        IsBrowser(w) == w.app_name \in browser_apps
        IsUrl(w) == UrlLike(w.title) /\ w.app_name # "Cursor"
        IsCursor(w) == w.app_name = "Cursor"
    IN IF l.exc # "none" THEN "None"
       ELSE IF FirstWith(wins, IsBrowser) # 0
       THEN wins[FirstWith(wins, IsBrowser)].app_name
       ELSE IF FirstWith(wins, IsUrl) # 0
       THEN First50(wins[FirstWith(wins, IsUrl)].title)
       ELSE IF FirstWith(wins, IsCursor) # 0 THEN "Cursor"
       ELSE "None"

NoBoundsListed == [x |-> 0, y |-> 0, width |-> 800, height |-> 600]

WmInit ==
    /\ RecInit
    /\ impl = "backend"
    /\ sy = SyOff /\ cap = CapOff /\ cc = CcOff /\ tl = TlOff /\ mx = MxOff
    /\ \/ \E cont, wmctrl, xdotool, idFound \in BOOLEAN, b \in ListedBounds,
             n \in 0..MaxWins :
            \E lines \in [1..n -> LinuxLines] :
                wm = WmIn(WmEnv("linux", cont, wmctrl, xdotool, lines, idFound,
                                <<>>, <<>>, FALSE, <<>>, b))
       \/ \E idFound \in BOOLEAN, n \in 0..MaxWins, c \in 0..1 :
            \E lines \in [1..n -> MacLines], chrome \in [1..c -> Titles] :
                wm = WmIn(WmEnv("macos", FALSE, TRUE, TRUE, lines, idFound,
                                chrome, <<>>, FALSE, <<>>, NoBoundsListed))
       \/ \E seRaises \in BOOLEAN, s \in 0..1, a \in 0..1 :
            \E se \in [1..s -> Titles], apps \in [1..a -> {"Finder"}] :
                wm = WmIn(WmEnv("macos", FALSE, TRUE, TRUE, <<>>, FALSE,
                                <<>>, se, seRaises, apps, NoBoundsListed))
       \/ \E n \in 0..MaxListed :
            \E lines \in [1..n -> DetectLines] :
                wm = WmIn(WmEnv("macos", FALSE, TRUE, TRUE, lines, FALSE,
                                <<>>, <<>>, FALSE, <<>>, NoBoundsListed))
       \/ \E b \in ListedBounds, n \in 0..MaxWins :
            \E lines \in [1..n -> WinLines] :
                wm = WmIn(WmEnv("windows", FALSE, TRUE, TRUE, lines, FALSE,
                                <<>>, <<>>, FALSE, <<>>, b))

wmRest == <<recVars, sy, cap, cc, tl, mx>>

ListWindows ==
    /\ wm.st = "in"
    /\ wm' = WmOut(wm.env, "list_windows", list_windows(wm.env))
    /\ UNCHANGED wmRest

GetWindowId ==
    /\ wm.st = "in"
    /\ wm' = WmOut(wm.env, "get_window_id", get_window_id(wm.env))
    /\ UNCHANGED wmRest

GetWindowBounds ==
    /\ wm.st = "in"
    /\ wm' = WmOut(wm.env, "get_window_bounds", get_window_bounds(wm.env))
    /\ UNCHANGED wmRest

FocusWindow ==
    /\ wm.st = "in"
    /\ wm' = WmOut(wm.env, "focus_window", focus_window(wm.env))
    /\ UNCHANGED wmRest

CheckDependencies ==
    /\ wm.st = "in"
    /\ wm' = WmOut(wm.env, "check_dependencies", check_dependencies(wm.env))
    /\ UNCHANGED wmRest

DetectBrowser ==
    /\ wm.st = "in"
    /\ wm.env.container
    /\ wm' = WmOut(wm.env, "detect_browser_window", detect_browser_window(wm.env))
    /\ UNCHANGED wmRest

BackendFocus ==
    /\ wm.st = "in"
    /\ wm' = WmOut(wm.env, "backend_focus_window", backend_focus_window(wm.env))
    /\ UNCHANGED wmRest

BackendBounds ==
    /\ wm.st = "in"
    /\ wm' = WmOut(wm.env, "backend_get_window_bounds", backend_get_window_bounds(wm.env))
    /\ UNCHANGED wmRest

\* start_recording up to the output size: the resolver, then (when it gave
\* arguments) the size the recording is scaled to.       base.py:129-162
ResolveTarget ==
    /\ wm.st = "in"
    /\ wm.env.plat # "macos"
    /\ wm' = WmOut(wm.env, "get_capture_args",
                   [cap |-> get_capture_args(wm.env),
                    size |-> IF get_capture_args(wm.env).kind = "args"
                             THEN output_size(wm.env)
                             ELSE [width |-> 0, height |-> 0]])
    /\ UNCHANGED wmRest

HostDetectBrowser ==
    /\ wm.st = "in"
    /\ ~wm.env.container
    /\ wm' = WmOut(wm.env, "host_detect_browser_window",
                   host_detect_browser_window(wm.env))
    /\ UNCHANGED wmRest

WmNext ==
    \/ ListWindows \/ GetWindowId \/ GetWindowBounds \/ FocusWindow
    \/ CheckDependencies \/ DetectBrowser \/ BackendFocus \/ BackendBounds
    \/ ResolveTarget \/ HostDetectBrowser

SpecWm == WmInit /\ [][WmNext]_vars

WmDone(o) == wm.st = "out" /\ wm.op = o

TargetResolved ==
    /\ WmDone("get_capture_args")
    /\ wm.out.cap.kind = "args"

\* C11: for every resolved capture target the capture width and height
\* and the output width and height are even, and an odd dimension of the
\* window is made even by trimming one pixel, never by adding one (no
\* dimension exceeds the window's).
C11_EvenByTrimming ==
    TargetResolved =>
        /\ wm.out.cap.width % 2 = 0 /\ wm.out.cap.height % 2 = 0
        /\ wm.out.size.width % 2 = 0 /\ wm.out.size.height % 2 = 0
        /\ wm.out.cap.width <= wm.env.b.width
        /\ wm.out.cap.height <= wm.env.b.height
        /\ wm.out.size.width <= wm.env.b.width
        /\ wm.out.size.height <= wm.env.b.height

\* No window matches the pattern: the helpers are there, and neither the
\* id lookup nor the listing has a match.
NoWindowMatches ==
    /\ Missing(wm.env) = <<>>
    /\ ~wm.env.idFound
    /\ \A k \in DOMAIN wm.env.lines : ~Matches(wm.env.lines[k].title)

\* C12: when no window matches the pattern the resolver returns an error
\* that names the pattern and sends the caller back to the window list,
\* and returns no capture arguments.
C12_NoMatchIsAnError ==
    (WmDone("get_capture_args") /\ NoWindowMatches) =>
        /\ wm.out.cap.kind = "error"
        /\ Pattern \in Range(wm.out.cap.msg)
        /\ ListHint \in Range(wm.out.cap.msg)

\* The system has no open window: the helpers are there and none of the
\* platform's listings has a line.
ZeroWindows ==
    /\ Missing(wm.env) = <<>>
    /\ wm.env.lines = <<>> /\ wm.env.chrome = <<>> /\ wm.env.se = <<>>

\* C13: list_windows on a system with no open window returns an empty
\* sequence and raises no error, on every platform.
C13_NoWindowsEmptyList ==
    (WmDone("list_windows") /\ ZeroWindows) =>
        /\ wm.out.exc = "none"
        /\ wm.out.val = <<>>

\* The listing has a window whose pid or bounds cannot be read.
SomeMetadataUnreadable ==
    /\ Missing(wm.env) = <<>>
    /\ \E k \in DOMAIN wm.env.lines :
          wm.env.lines[k].shape \in {"nopid", "nobounds", "badpid", "badgeom"}

\* C14: list_windows succeeds when the pid or the bounds of a window
\* cannot be read: the call raises nothing and every window the platform
\* listed with a title has its record.
C14_PartialRecords ==
    (WmDone("list_windows") /\ SomeMetadataUnreadable) =>
        /\ wm.out.exc = "none"
        /\ \A k \in DOMAIN wm.env.lines :
              wm.env.lines[k].shape \notin {"short", "tiny"} =>
                  \E m \in DOMAIN wm.out.val :
                      wm.out.val[m].title = wm.env.lines[k].title

\* ======================================================================
\* Part 5: joining clips (server.py, _concatenate_videos)
\* ======================================================================
MaxPaths == 2      \* most clips handed to one call

ClipPaths == {"scene1.mp4", "scene2.mp4"}

\* What the environment does during one call: whether get_ffmpeg_path
\* finds the tool, whether the manifest can be written to the end, and
\* how the join tool ends (exit 0, non-zero exit, or it cannot be run and
\* subprocess.run raises).
FfmpegOutcomes == {"found", "raises"}
WriteOutcomes == {"written", "raises"}
JoinOutcomes == {"ok", "nonzero", "cannot run"}

ConcatInput(paths, ffmpeg, write, join) ==
    [video_paths |-> paths, ffmpeg |-> ffmpeg, write |-> write, join |-> join]

\* The result of the handler: the text it returns or the exception it
\* raises, the lines of the manifest, and whether the manifest file is
\* still on disk ("none" when it was never created).
ConcatResult(kind, head, merged, lines, file) ==
    [kind |-> kind, head |-> head, merged |-> merged, lines |-> lines, file |-> file]

\* The manifest: one line per path, in order.             server.py:999-1001
Manifest(paths) == [k \in DOMAIN paths |-> <<"file '", paths[k], "'">>]

\* The try/finally around the join: os.unlink runs however the try block
\* is left.                                               server.py:1003-1020
ManifestAfterJoin_NoFinally(join) == IF join = "ok" THEN "removed" ELSE "on disk"
ManifestAfterJoin(join) == "removed"

\* _concatenate_videos                                     server.py:990-1031
concatenate_videos(i) ==
    IF i.ffmpeg = "raises"
    THEN ConcatResult("raise", "get_ffmpeg_path", 0, <<>>, "none")
    ELSE IF i.write = "raises"
    THEN ConcatResult("raise", "write", 0, <<>>, "on disk")
    ELSE IF i.join = "cannot run"
    THEN ConcatResult("raise", "subprocess.run", 0, Manifest(i.video_paths),
                      ManifestAfterJoin(i.join))
    ELSE IF i.join = "nonzero"
    THEN ConcatResult("text", "Error: ", 0, Manifest(i.video_paths),
                      ManifestAfterJoin(i.join))
    ELSE ConcatResult("text", "Videos concatenated!", Len(i.video_paths),
                      Manifest(i.video_paths), ManifestAfterJoin(i.join))

ConcatInit ==
    /\ RecInit
    /\ impl = "server"
    /\ sy = SyOff /\ cap = CapOff /\ wm = WmOff /\ tl = TlOff /\ mx = MxOff
    /\ \E n \in 0..MaxPaths, ffmpeg \in FfmpegOutcomes, write \in WriteOutcomes,
          join \in JoinOutcomes :
         \E paths \in [1..n -> ClipPaths] :
            cc = [st |-> "in", in |-> ConcatInput(paths, ffmpeg, write, join)]

Concatenate ==
    /\ cc.st = "in"
    /\ cc' = [st |-> "out", in |-> cc.in, out |-> concatenate_videos(cc.in)]
    /\ UNCHANGED <<recVars, sy, cap, wm, tl, mx>>

SpecConcat == ConcatInit /\ [][Concatenate]_vars

ConcatDone == cc.st = "out"

JoinReached == ConcatDone /\ cc.in.ffmpeg = "found" /\ cc.in.write = "written"

\* C16: after concatenate returns or raises, whether the join tool
\* succeeded, exited non-zero or could not be run, the manifest file no
\* longer exists.
C16_ManifestRemoved ==
    JoinReached => cc.out.file = "removed"

C16_Witness ==
    /\ JoinReached
    /\ cc.in.join = "cannot run" /\ cc.out.kind = "raise"
    /\ cc.in.video_paths # <<>>
    /\ cc.out.file = "removed"

\* ======================================================================
\* Part 6: the tool layer (server.py, list_tools and call_tool)
\* ======================================================================
MaxCalls == 3      \* most requests served in one behaviour

\* list_tools: the names of the tools, in order.           server.py:300-468
list_tools_Renamed ==
    <<"start_recording", "stop_recording", "recording_status", "text_to_speech",
      "get_media_info", "concatenate_videos", "adjust_video_to_audio",
      "planning_phase_1", "setup_phase_2", "recording_phase_3", "editing_phase_4",
      "list_windows", "focus_window">>
list_tools ==
    <<"start_recording", "stop_recording", "recording_status", "text_to_speech",
      "media_info", "concatenate_videos", "adjust_video_to_audio",
      "planning_phase_1", "setup_phase_2", "recording_phase_3", "editing_phase_4",
      "list_windows", "window_tools">>

\* The names the tests expect and the names they expect to be gone.
\* tests/test_server.py:98-115, 124-137
expected_tools ==
    {"start_recording", "stop_recording", "recording_status", "text_to_speech",
     "media_info", "concatenate_videos", "adjust_video_to_audio",
     "planning_phase_1", "setup_phase_2", "recording_phase_3", "editing_phase_4",
     "list_windows", "window_tools"}
removed_tools ==
    {"replace_video_audio", "merge_audio_tracks", "trim_video", "get_audio_duration",
     "focus_window", "get_window_bounds", "list_screens", "get_demo_protocol"}

\* The older names call_tool still serves.                 server.py:494-543
Aliases ==
    {"get_media_info", "adjust_video_to_audio_length", "get_demo_planning_guide",
     "get_recording_setup_guide", "get_recording_actions_guide",
     "get_video_assembly_guide", "check_window_tools"}

\* The names a client may send.
CalledNames == expected_tools \cup Aliases \cup removed_tools \cup {"no_such_tool"}

\* The branch of call_tool's if/elif chain a name takes: the handler, or
\* "else" for a name no branch tests.                      server.py:477-545
Handler(name) ==
    CASE name = "start_recording" -> "_start_recording"
      [] name = "stop_recording" -> "_stop_recording"
      [] name = "recording_status" -> "_recording_status"
      [] name = "text_to_speech" -> "_text_to_speech"
      [] name \in {"media_info", "get_media_info"} -> "_get_media_info"
      [] name = "concatenate_videos" -> "_concatenate_videos"
      [] name \in {"adjust_video_to_audio", "adjust_video_to_audio_length"}
            -> "_adjust_video_to_audio"
      [] name \in {"planning_phase_1", "get_demo_planning_guide"} -> "get_planning_guide"
      [] name \in {"setup_phase_2", "get_recording_setup_guide"} -> "get_setup_guide"
      [] name \in {"recording_phase_3", "get_recording_actions_guide"}
            -> "get_recording_guide"
      [] name \in {"editing_phase_4", "get_video_assembly_guide"} -> "get_assembly_guide"
      [] name = "list_windows" -> "_list_windows"
      [] name \in {"window_tools", "check_window_tools"} -> "_check_window_tools"
      [] OTHER -> "else"

\* How a handler ends: it returns its text, or it raises one of the
\* exceptions the handlers and what they call can raise (a missing
\* argument, a missing tool, a missing helper, a failing subprocess).
HandlerEnds ==
    {"returns", "KeyError", "RuntimeError", "FileNotFoundError",
     "DependencyMissingError", "TimeoutExpired"}

\* `except Exception` catches every one of them.           server.py:547
Caught_KeyErrorOnly(e) == e = "KeyError"
Caught(e) == TRUE

\* What call_tool hands back to the framework: a text, or the exception
\* it lets through.
ToolText(head, detail) == [kind |-> "text", head |-> head, detail |-> detail]
ToolRaise(e) == [kind |-> "raise", head |-> "", detail |-> e]

\* call_tool                                               server.py:471-548
call_tool(name, h) ==
    IF Handler(name) = "else" THEN ToolText("Unknown tool: ", name)
    ELSE IF h = "returns" THEN ToolText("", Handler(name))
    ELSE IF Caught(h) THEN ToolText("Error: ", h)
    ELSE ToolRaise(h)

NoCall == [name |-> "", ends |-> "", result |-> ToolText("", "")]

ToolsInit ==
    /\ RecInit
    /\ impl = "server"
    /\ sy = SyOff /\ cap = CapOff /\ wm = WmOff /\ cc = CcOff /\ mx = MxOff
    /\ tl = [st |-> "on", calls |-> 0, last |-> NoCall, listed |-> <<>>]

ListTools ==
    /\ tl.st = "on"
    /\ tl.calls < MaxCalls
    /\ tl' = [tl EXCEPT !.calls = @ + 1, !.listed = list_tools]
    /\ UNCHANGED <<recVars, sy, cap, wm, cc, mx>>

CallTool ==
    /\ tl.st = "on"
    /\ tl.calls < MaxCalls
    /\ \E name \in CalledNames, h \in HandlerEnds :
          tl' = [tl EXCEPT !.calls = @ + 1,
                           !.last = [name |-> name,
                                     ends |-> IF Handler(name) = "else" THEN "" ELSE h,
                                     result |-> call_tool(name, h)]]
    /\ UNCHANGED <<recVars, sy, cap, wm, cc, mx>>

ToolsNext == ListTools \/ CallTool

SpecTools == ToolsInit /\ [][ToolsNext]_vars

Called == tl.st = "on" /\ tl.last.name # ""

\* C17: for every tool name, known or unknown, and every exception the
\* handler raises, call_tool returns a text result and lets no exception
\* through (an exception becomes "Error: ..." and an unknown name
\* "Unknown tool: ..."), and the server goes on accepting calls.
C17_FailuresAreResults ==
    Called =>
        /\ tl.last.result.kind = "text"
        /\ Handler(tl.last.name) = "else" => tl.last.result.head = "Unknown tool: "
        /\ tl.last.ends \notin {"", "returns"} =>
              /\ tl.last.result.head = "Error: "
              /\ tl.last.result.detail = tl.last.ends
        /\ tl.calls < MaxCalls => ENABLED CallTool

C17_Witness ==
    /\ Called
    /\ tl.calls = 2
    /\ tl.last.name = "concatenate_videos"
    /\ tl.last.ends = "FileNotFoundError"
    /\ tl.last.result = ToolText("Error: ", "FileNotFoundError")

\* C20: list_tools returns every one of the 13 expected tool names and
\* none of the removed names.
C20_ToolNames ==
    (tl.st = "on" /\ tl.listed # <<>>) =>
        /\ expected_tools \subseteq Range(tl.listed)
        /\ removed_tools \cap Range(tl.listed) = {}

C20_Witness ==
    /\ tl.st = "on"
    /\ Len(tl.listed) = 13
    /\ Cardinality(expected_tools) = 13
    /\ "window_tools" \in Range(tl.listed)

\* A start or stop call has just returned or raised.
StartOrStopReturned ==
    \E c \in Callers : op[c] \in {"start", "stop"} /\ pc[c] = "idle" /\ result[c] # ""

\* C18: when a start or stop call has returned, no log handle of a
\* recording whose subprocess could not be launched or has exited is
\* still open or still referenced by the session.
C18_NoLogHandleLeft ==
    StartOrStopReturned =>
        \A p \in Procs :
            proc[p] \in {"nolaunch", "dead"} => ~logOpen[p] /\ rec.log_file # p

InstallHint == ". Install with: sudo apt install "

\* msg is a missing-dependency message: it names every missing tool and
\* the install command.
NamesMissingTools(e, msg) ==
    /\ Range(Missing(e)) \subseteq Range(msg)
    /\ InstallHint \in Range(msg)

\* C19: when wmctrl or xdotool is absent, listing windows, focusing,
\* reading bounds, looking up a window id, detecting the browser and
\* resolving a capture target each report a missing-dependency failure
\* that names every missing tool and the install command.
C19_MissingDependencyReported ==
    (wm.st = "out" /\ Missing(wm.env) # <<>>) =>
        CASE wm.op \in {"list_windows", "focus_window", "get_window_bounds", "get_window_id"}
                -> /\ wm.out.exc = "DependencyMissingError"
                   /\ NamesMissingTools(wm.env, wm.out.msg)
          [] wm.op = "get_capture_args"
                -> /\ wm.out.cap.kind # "args"
                   /\ NamesMissingTools(wm.env, wm.out.cap.msg)
          [] wm.op = "detect_browser_window"
                -> wm.out # "None"
          [] OTHER -> TRUE

\* ======================================================================
\* Properties of the stop escalation, the failed start, the log and the
\* health signal
\* ======================================================================
\* The signals of the escalation, in the order of the code.
\* server.py:728-773, base.py:261-316
Escalation == <<"q", "SIGINT", "SIGTERM", "SIGKILL", "SIGKILL_PID">>

\* The position of a signal in the escalation.
Rank(sig) == CHOOSE k \in DOMAIN Escalation : Escalation[k] = sig

\* Call c sends a signal in this step.
Sends(c) == Len(sent'[c]) = Len(sent[c]) + 1

\* Stop call c, suspended in the escalation, polls the subprocess in this
\* step.
Observes(c) ==
    /\ op[c] = "stop" /\ pc[c] \in {"t_q", "t_int", "t_term", "t_kill", "t_final"}
    /\ pc'[c] # pc[c] \/ loc'[c] # loc[c]

\* Every signal a stop call sends is the successor of the one it sent
\* before (the first is 'q', or SIGINT when stdin is closed), it is sent
\* only while the last poll saw the subprocess alive, and a call that has
\* seen the subprocess exited sends nothing more.
EscalationInOrder(c) ==
    /\ Sends(c) =>
          /\ op[c] = "stop"
          /\ Alive(StopProc(c))'
          /\ LET new == sent'[c][Len(sent'[c])]
             IN IF sent[c] = <<>> THEN new \in {"q", "SIGINT"}
                ELSE Rank(new) = Rank(sent[c][Len(sent[c])]) + 1
    /\ (Observes(c) /\ ~Alive(StopProc(c))) => (pc'[c] = "idle" /\ ~Sends(c))

\* A subprocess that is still alive when the wait after kill() is over is
\* killed once more by process id.
FinalKillByPid(c) ==
    (Observes(c) /\ pc[c] = "t_kill" /\ Alive(StopProc(c))) =>
        (Sends(c) /\ sent'[c][Len(sent'[c])] = "SIGKILL_PID")

\* C21: stop escalates in a fixed order: 'q' on stdin, SIGINT, SIGTERM,
\* kill, and a final kill by process id.  Each step is taken only if the
\* subprocess was still alive after every earlier step and its wait, and
\* once the subprocess is seen to have exited no further signal is sent.
C21_EscalationOrder ==
    [][\A c \in Callers : EscalationInOrder(c) /\ FinalKillByPid(c)]_vars

\* The sequential client with the event loop resuming every suspended stop
\* call when its asyncio.sleep is over.
SpecSeqFair ==
    /\ SpecSeq
    /\ WF_vars(StopEntry(1)) /\ WF_vars(StopPoll(1))
    /\ WF_vars(StopAfterKill(1)) /\ WF_vars(StopFinal(1))

\* The waits a stop call suspended at `where` with loop index i has behind
\* it at most: 30 polls after 'q', 20 after SIGINT, 20 after SIGTERM, the
\* wait after kill() and the wait after the kill by pid.
WaitsBehind(where, i) ==
    CASE where = "t_q" -> i
      [] where = "t_int" -> StdinPolls + i
      [] where = "t_term" -> StdinPolls + SigintPolls + i
      [] where = "t_kill" -> StdinPolls + SigintPolls + SigtermPolls
      [] where = "t_final" -> StdinPolls + SigintPolls + SigtermPolls + 1

InEscalation(c) ==
    op[c] = "stop" /\ pc[c] \in {"t_q", "t_int", "t_term", "t_kill", "t_final"}

\* C22: a stop call issued while recording always returns, whatever the
\* capture subprocess does: every wait that ends either returns or moves
\* the call forward in the escalation, which has at most 30 + 20 + 20
\* polls and two final waits, so the call reaches its return; and the
\* session is idle when it returns.
C22_StopReturns ==
    /\ [][\A c \in Callers :
             Observes(c) =>
                \/ pc'[c] = "idle"
                \/ /\ InEscalation(c)'
                   /\ WaitsBehind(pc'[c], loc'[c].i) > WaitsBehind(pc[c], loc[c].i)
                   /\ WaitsBehind(pc'[c], loc'[c].i)
                         < StdinPolls + SigintPolls + SigtermPolls + 2]_vars
    /\ [](\A c \in Callers :
             (op[c] = "stop" /\ result[c] = Stopped) => rec = IdleState)
    /\ \A c \in {1} : (op[c] = "stop" /\ pc[c] = "entry") ~> (pc[c] = "idle")

\* A stop call has returned after the whole escalation, the subprocess
\* having ignored every signal.
C22_Witness ==
    /\ op[1] = "stop" /\ result[1] = Stopped /\ pc[1] = "idle"
    /\ sent[1] = Escalation
    /\ rec = IdleState

\* Call c returns `text` from a start in this step.
StartReturns(c, text) == op[c] = "start" /\ pc[c] # "idle" /\ result'[c] = text

StopReturns(c) == op[c] = "stop" /\ pc[c] # "idle" /\ result'[c] = Stopped

\* C24: stop deletes the diagnostic log if and only if the output file
\* exists and is non-empty; when the output is missing or has zero bytes
\* the log file is kept on disk.
C24_LogDeletedIffOutput ==
    [][\A c \in Callers :
          StopReturns(c) =>
              LET k == loc[c].process
              IN /\ logOnDisk[k]
                 /\ ~logOnDisk'[k] <=> fileSize[k] > 0]_vars

\* A stop has returned with an empty output file and the log kept, after
\* an earlier recording whose log was deleted.
C24_Witness ==
    /\ op[1] = "stop" /\ result[1] = Stopped
    /\ fileSize[1] > 0 /\ ~logOnDisk[1]
    /\ fileSize[2] = 0 /\ logOnDisk[2] /\ proc[2] = "dead"

\* Status call c reports on a running recording in this step.
StatusReports(c) ==
    op[c] = "status" /\ pc[c] = "entry" /\ result'[c] \in {Healthy, NotGrowing}

\* C25: of two consecutive status calls in one recording, the second
\* reports the not-growing warning whenever the size of the output file
\* did not increase between them (also for a file that is still empty or
\* missing), and reports healthy only when it grew: right after a status
\* call the health signal of an unchanged file is the warning, and a
\* status that reports healthy after a size was recorded saw a larger one.
C25_HealthFromGrowth ==
    [][\A c \in Callers :
          StatusReports(c) =>
              /\ ~SizeGrowing'
              /\ (result'[c] = Healthy /\ rec.last_size > 0) =>
                     fileSize[rec.path] > rec.last_size]_vars

\* ---------------------------------------------------------------------
\* Part 7.  The multiplexer and one child server (mcp_multiplexer.py)
\* ---------------------------------------------------------------------
\* The multiplexer runs on one event loop: the code between two awaits is
\* one step.  Each task is one call of _send_request; the reader is the
\* child's _read_child_output task; the child answers the requests it has
\* received in any order, any number of times, or not at all.

MaxTasks == 3
MaxOut == 2
Tasks == 1..MaxTasks

\* A task that has not called _send_request.
NoRequest == [pc |-> "idle", id |-> 0, fut |-> "none", msg |-> 0, ret |-> ""]

\* ChildMCP after _start_child: request_id, pending_requests (id, owner of
\* the future), plus the child process, the ids it has read from its stdin
\* and the lines in its stdout.                  mcp_multiplexer.py:26-35
MuxInit ==
    /\ RecInit
    /\ impl = "server"
    /\ sy = SyOff /\ cap = CapOff /\ wm = WmOff /\ cc = CcOff /\ tl = TlOff
    /\ mx = [st |-> "on", alive |-> TRUE, request_id |-> 0, pending |-> {},
             task |-> [t \in Tasks |-> NoRequest], stdin |-> {}, out |-> <<>>]

\* _send_request up to its wait: a fresh id, the future registered under
\* it, the request written and drained.  A child that is gone may still be
\* written to until the loop notices.          mcp_multiplexer.py:79-103
SendRequest(t) ==
    /\ mx.st = "on"
    /\ mx.task[t].pc = "idle"
    /\ LET request_id == mx.request_id + 1
       IN mx' = [mx EXCEPT !.request_id = request_id,
                           !.pending = @ \cup {<<request_id, t>>},
                           !.stdin = IF mx.alive THEN @ \cup {request_id} ELSE @,
                           !.task[t] = [pc |-> "wait", id |-> request_id,
                                        fut |-> "pending", msg |-> 0, ret |-> ""]]
    /\ UNCHANGED <<recVars, sy, cap, wm, cc, tl>>

\* _send_request when the pipe to the child is lost: drain() raises, after
\* the id was taken and the future registered.  mcp_multiplexer.py:83-103
SendFails(t) ==
    /\ mx.st = "on"
    /\ mx.task[t].pc = "idle"
    /\ ~mx.alive
    /\ LET request_id == mx.request_id + 1
       IN mx' = [mx EXCEPT !.request_id = request_id,
                           !.pending = @ \cup {<<request_id, t>>},
                           !.task[t] = [pc |-> "done", id |-> request_id,
                                        fut |-> "pending", msg |-> 0,
                                        ret |-> "ConnectionResetError"]]
    /\ UNCHANGED <<recVars, sy, cap, wm, cc, tl>>

\* The child writes a response to a request it has read.
ChildRespond ==
    /\ mx.st = "on"
    /\ mx.alive
    /\ Len(mx.out) < MaxOut
    /\ \E k \in mx.stdin : mx' = [mx EXCEPT !.out = Append(@, k)]
    /\ UNCHANGED <<recVars, sy, cap, wm, cc, tl>>

\* The child exits.
ChildExit ==
    /\ mx.st = "on"
    /\ mx.alive
    /\ mx' = [mx EXCEPT !.alive = FALSE]
    /\ UNCHANGED <<recVars, sy, cap, wm, cc, tl>>

\* _read_child_output, one line: a message whose id is pending pops the
\* future and sets its result unless it is done.  mcp_multiplexer.py:128-139
ReadLine ==
    /\ mx.st = "on"
    /\ mx.out # <<>>
    /\ LET message == Head(mx.out)
           popped == {p \in mx.pending : p[1] = message}
       IN mx' = [mx EXCEPT !.out = Tail(@),
                           !.pending = @ \ popped,
                           !.task = [t \in Tasks |->
                               IF <<message, t>> \in popped /\ @[t].fut = "pending"
                               THEN [@[t] EXCEPT !.fut = "result", !.msg = message]
                               ELSE @[t]]]
    /\ UNCHANGED <<recVars, sy, cap, wm, cc, tl>>

\* asyncio.wait_for, the 120 s timer fires: the future is cancelled unless
\* it is done, and the task is woken.          mcp_multiplexer.py:105-107
Timeout(t) ==
    /\ mx.st = "on"
    /\ mx.task[t].pc = "wait"
    /\ mx' = [mx EXCEPT !.task[t].pc = "timedout",
                        !.task[t].fut = IF @ = "pending" THEN "cancelled" ELSE @]
    /\ UNCHANGED <<recVars, sy, cap, wm, cc, tl>>

\* except asyncio.TimeoutError: the id is popped from the table and the
\* timeout error raised.  A result that was set just before the timer
\* fired is dropped or returned, depending on the runtime's wait_for.
\* mcp_multiplexer.py:108-110
ReturnTimeout(t) ==
    /\ mx.st = "on"
    /\ mx.task[t].pc = "timedout"
    /\ mx' = [mx EXCEPT !.pending = @ \ {<<mx.task[t].id, t>>},
                        !.task[t].pc = "done",
                        !.task[t].ret = "Timeout"]
    /\ UNCHANGED <<recVars, sy, cap, wm, cc, tl>>

\* return response                             mcp_multiplexer.py:106-107
ReturnResponse(t) ==
    /\ mx.st = "on"
    /\ mx.task[t].pc \in {"wait", "timedout"}
    /\ mx.task[t].fut = "result"
    /\ mx' = [mx EXCEPT !.task[t].pc = "done", !.task[t].ret = "response"]
    /\ UNCHANGED <<recVars, sy, cap, wm, cc, tl>>

MuxNext ==
    \/ \E t \in Tasks : SendRequest(t)
    \/ \E t \in Tasks : SendFails(t)
    \/ ChildRespond
    \/ ChildExit
    \/ ReadLine
    \/ \E t \in Tasks : Timeout(t)
    \/ \E t \in Tasks : ReturnTimeout(t)
    \/ \E t \in Tasks : ReturnResponse(t)

SpecMux == MuxInit /\ [][MuxNext]_vars

\* The event loop runs every task that is ready and fires every timer.
SpecMuxFair ==
    /\ SpecMux
    /\ \A t \in Tasks : /\ WF_vars(Timeout(t))
                        /\ WF_vars(ReturnTimeout(t))
                        /\ WF_vars(ReturnResponse(t))

\* ---------------------------------------------------------------------
\* Properties of window selection, the merged listing, browser detection,
\* the capture device index and the multiplexer
\* ---------------------------------------------------------------------

\* The windows of a listing that the pattern selects: by title or, failing
\* that, by app_name.
Selected(wins) ==
    {k \in DOMAIN wins : Matches(wins[k].title) \/ MatchesApp(wins[k].app_name)}

BoundsAsked == WmDone("get_window_bounds") /\ list_windows(wm.env).exc = "none"

\* C26: get_window_bounds selects the first window of the listing, in the
\* listing's order, whose title matches the pattern or, failing that, whose
\* app_name matches; it returns that window's bounds, fails with
\* WindowNotFoundError when no window matches, and fails with
\* WindowManagerError (bounds unavailable) when the selected window has none.
C26_FirstMatchBounds ==
    BoundsAsked =>
        LET wins == list_windows(wm.env).val
            hits == Selected(wins)
        IN IF hits = {} THEN wm.out.exc = "WindowNotFoundError"
           ELSE LET k == CHOOSE k \in hits : \A m \in hits : k <= m
                IN IF wins[k].bounds = 0
                   THEN wm.out.exc = "WindowManagerError"
                   ELSE wm.out = Ok(BoundsAt(wm.env, wins[k].bounds))

\* Two windows match, the first by app_name only and the second by title;
\* the bounds returned are the first one's.
C26_Witness ==
    /\ BoundsAsked
    /\ LET wins == list_windows(wm.env).val
       IN /\ Len(wins) = 2
          /\ ~Matches(wins[1].title) /\ MatchesApp(wins[1].app_name)
          /\ Matches(wins[2].title)
          /\ wins[1].bounds # 0 /\ wins[2].bounds # 0
          /\ wm.out = Ok(BoundsAt(wm.env, wins[1].bounds))

\* Every record the macOS listings returned, in the order they are merged.
Found(e) ==
    macos_list_windows_cg(e.lines, 1) \o macos_list_chrome_windows(e)
        \o (IF e.seRaises THEN <<>> ELSE macos_list_windows_system_events(e))

SamePair(v, w) == v.app_name = w.app_name /\ v.title = w.title

MacListed == WmDone("list_windows") /\ wm.env.plat = "macos" /\ wm.out.exc = "none"

NoDuplicatePair ==
    MacListed => \A i, j \in DOMAIN wm.out.val :
                    SamePair(wm.out.val[i], wm.out.val[j]) => i = j

\* C27: the merged macOS listing has no two records with the same
\* (app_name, title) pair, and of the records found with one pair the one
\* kept has its bounds populated whenever one of them has.
C27_MergeKeepsRicher ==
    /\ NoDuplicatePair
    /\ MacListed =>
          \A f \in DOMAIN Found(wm.env), m \in DOMAIN wm.out.val :
              (SamePair(Found(wm.env)[f], wm.out.val[m]) /\ Found(wm.env)[f].bounds # 0)
                  => wm.out.val[m].bounds # 0

HostDetected ==
    WmDone("host_detect_browser_window") /\ list_windows(wm.env).exc = "none"

\* C28: browser detection on the host follows a strict priority whatever
\* the order of the windows: when a window of a known standalone browser is
\* listed the result is that application; otherwise it is the title (cut
\* to 50 characters) of a URL-like window that is not the editor's;
\* otherwise it is the editor, when the editor has a window; and with none
\* of these no browser is found.
C28_DetectionPriority ==
    HostDetected =>
        LET wins == list_windows(wm.env).val
            Browsers == {k \in DOMAIN wins : wins[k].app_name \in browser_apps}
            Urls == {k \in DOMAIN wins :
                        UrlLike(wins[k].title) /\ wins[k].app_name # "Cursor"}
            Editors == {k \in DOMAIN wins : wins[k].app_name = "Cursor"}
        IN IF Browsers # {} THEN \E k \in Browsers : wm.out = wins[k].app_name
           ELSE IF Urls # {} THEN \E k \in Urls : wm.out = First50(wins[k].title)
           ELSE IF Editors # {} THEN wm.out = "Cursor"
           ELSE wm.out = "None"

\* The editor's window is listed first, a URL-like window second and a
\* browser's window last: the browser is the result.
C28_Witness ==
    /\ HostDetected
    /\ LET wins == list_windows(wm.env).val
       IN /\ Len(wins) = 3
          /\ wins[1].app_name = "Cursor"
          /\ UrlLike(wins[2].title) /\ wins[2].app_name = "Terminal"
          /\ wins[3].app_name = "Safari"
    /\ wm.out = "Safari"

CaptureResolved == cap.st = "out" /\ cap.error = ""

\* C29: the capture device for target screen n is found by probing: when
\* the device listing has a line "[k] Capture screen n-1" the device index
\* is k, however many devices are listed before it; when the listing cannot
\* be obtained or has no such line, the device index falls back to n.
C29_DeviceIndexProbed ==
    CaptureResolved =>
        LET devices == ListedDevices(cap.in.cams)
            lines == {k \in DOMAIN devices : devices[k].screen = cap.screen - 1}
        IN IF lines # {}
           THEN \E k \in lines : cap.device = devices[k].index
           ELSE cap.device = cap.screen

\* Two cameras are listed before the screens: the second screen is device 3.
C29_Witness ==
    /\ CaptureResolved
    /\ cap.in.cams = <<2, 2>>
    /\ cap.screen = 2
    /\ cap.device = 3

\* The listing has no line for the second screen: the device index is 2.
C29_FallbackReached ==
    /\ CaptureResolved
    /\ cap.in.cams = <<2, 1>>
    /\ cap.screen = 2
    /\ cap.device = 2

MuxOn == mx.st = "on"
RequestSent(t) == mx.task[t].pc # "idle"

\* No two requests to the child carry the same id.
UniqueIds ==
    MuxOn => \A t, u \in Tasks :
                (RequestSent(t) /\ RequestSent(u) /\ mx.task[t].id = mx.task[u].id)
                    => t = u

\* A result set on a request's future is the message with the request's id.
ResponseMatchesId ==
    MuxOn => \A t \in Tasks : mx.task[t].fut = "result" => mx.task[t].msg = mx.task[t].id

\* A request that timed out is not in the pending table.
TimedOutRemoved ==
    MuxOn => \A t \in Tasks :
                mx.task[t].ret = "Timeout" => <<mx.task[t].id, t>> \notin mx.pending

\* Nothing changes a request that has ended; a late response in particular
\* completes nothing.
EndedStaysEnded ==
    MuxOn => \A t \in Tasks : mx.task[t].pc = "done" => mx'.task[t] = mx.task[t]

\* A request that has ended has returned its response or raised the
\* timeout error.
EndsWithResponseOrTimeout ==
    MuxOn => \A t \in Tasks :
                mx.task[t].pc = "done" => mx.task[t].ret \in {"response", "Timeout"}

\* The parts of C30 that hold whatever happens to the child.
RequestsMatched ==
    /\ [](UniqueIds /\ ResponseMatchesId /\ TimedOutRemoved)
    /\ [][EndedStaysEnded]_vars

\* Every request that was written and is waiting ends.
EveryRequestEnds ==
    \A t \in Tasks : (MuxOn /\ mx.task[t].pc = "wait") ~> (mx.task[t].pc = "done")

\* C30: request ids are unique per child; a response with id k completes
\* exactly the pending request sent with id k; every request ends with a
\* response or the timeout error; and a request that timed out is removed
\* from the pending table, so that a late response completes nothing.
C30_RequestsAnswered ==
    /\ [](UniqueIds /\ ResponseMatchesId /\ TimedOutRemoved
            /\ EndsWithResponseOrTimeout)
    /\ [][EndedStaysEnded]_vars

\* A late response: the request with id 1 timed out, and its response is
\* read afterwards.
LateResponseRead ==
    /\ MuxOn
    /\ mx.task[1].id = 1 /\ mx.task[1].ret = "Timeout" /\ mx.task[1].fut = "cancelled"
    /\ 1 \in mx.stdin /\ mx.out = <<>> /\ mx.pending = {}
    /\ mx.task[2].ret = "response" /\ mx.task[2].id = 2
====
